---- MODULE Spec2Model ----
(***************************************************************************)
(* The live-chat room broadcast core of TezJet: Hub (room registry), Room   *)
(* control loop, Client read/write pumps and the LiveChatWS entry point.    *)
(* Modelled from src/unnamed/part_003.                                      *)
(*                                                                          *)
(* Time is counted in grains of 1/6 s; tokens of the rate limiter are       *)
(* counted in halves of a token, so that the refill of one grain            *)
(* (1/6 s * 3 tokens/s = 0.5 token) is an integer, and presenceDebounce     *)
(* (500 ms) is 3 grains.                                                    *)
(***************************************************************************)
EXTENDS Integers, Sequences, FiniteSets, TLC

(* ------------------------------ bounds -------------------------------- *)

\* number of connections (Client objects) that ever arrive
NClients == 2
\* frames a connection sends in the untimed specification
MaxFrames == 1
\* frames the connection sends in the rate-limit specification
MaxRateFrames == 7
\* frames a connection sends in the ordering specification
MaxOrderFrames == 2
\* last grain of the clock in the timed specifications
MaxTime == 6
\* channel capacities, scaled down (8192, 1024, 1024 and 64 in the source)
roomBroadcastBuf == 1
roomRegisterBuf == 1
roomUnregisterBuf == 1
clientSendBuf == 1

(* ------------------------- program constants -------------------------- *)

\* part_003:28
maxMsgsPerSecond == 3
\* one grain refills half a token
GrainsPerSecond == 2 * maxMsgsPerSecond
TokenScale == GrainsPerSecond \div maxMsgsPerSecond
\* part_003:26, in bytes
maxMsgSize == 512
\* part_003:27
maxTextRunes == 50
\* part_003:35, 500 ms in grains
presenceDebounce == GrainsPerSecond \div 2
\* part_003:343
drainBatch == 32
\* part_003:38
broadcastDropClose == FALSE
\* part_003:195
DefaultRoom == "esimde-live"
\* part_003:379
DefaultAuthor == "Guest"

Clients == 1..NClients
\* every GetRoom call creates at most one Room
RoomIds == 1..NClients
NoRoom == 0
NoClient == 0
\* the zero value of time.Time
ZeroTime == 0 - 1
NoGap == 0 - 1

(* ------------------------------- inputs ------------------------------- *)

\* the query strings of the upgrade requests: room and author
Queries == {[room |-> "", author |-> "A"], [room |-> "r1", author |-> ""]}
RoomKeys == {"", "esimde-live", "r1"}

Hello == <<"H", "e", "l", "l", "o">>
PaddedHi == <<" ", "H", "i", "\t">>
Blank == <<" ", " ">>
Runes(k) == [i \in 1..k |-> "x"]

\* an inbound text frame: json = FALSE is a frame json.Unmarshal rejects
Frame(j, ty, au, tx, rm) ==
    [json |-> j, type |-> ty, author |-> au, text |-> tx, room |-> rm]

ValidFrame == Frame(TRUE, "", "", Hello, "")
SpoofFrame == Frame(TRUE, "presence", "Eve", PaddedHi, "r2")
BadJsonFrame == Frame(FALSE, "", "", <<>>, "")
BlankFrame == Frame(TRUE, "chat", "", Blank, "")
LongFrame == Frame(TRUE, "chat", "", Runes(maxTextRunes + 1), "")

Frames == {ValidFrame, SpoofFrame, BadJsonFrame, BlankFrame, LongFrame}
RateFrames == {ValidFrame, BadJsonFrame, BlankFrame}

(* ------------------------------- state -------------------------------- *)

VARIABLES
    \* Hub
    mu,             \* holder of Hub.mu, NoClient when free
    rooms,          \* Hub.rooms: name -> Room (NoRoom when absent)
    nRooms,         \* Room objects allocated so far
    \* Room
    roomName,       \* Room.name
    clients,        \* Room.clients
    register,       \* Room.register
    unregister,     \* Room.unregister
    broadcast,      \* Room.broadcast
    presenceDirty,  \* local of Room.run
    loops,          \* goroutines running Room.run for this Room
    nextTick,       \* grain at which presenceTicker fires next
    \* Client
    epPc,           \* position of LiveChatWS for this connection
    reqRoom,        \* the room query parameter
    author,         \* Client.author
    room,           \* Client.room
    send,           \* Client.send, the buffered items
    sendClosed,     \* Client.send has been closed
    connClosed,     \* Client.conn has been closed
    tokens,         \* Client.tokens, in halves of a token
    lastRefill,     \* Client.lastRefill
    rdPc,           \* position of readPump
    wrPc,           \* position of writePump
    nFrames,        \* frames read so far
    \* process
    now,            \* the clock, in grains
    panicked,       \* a send on or close of a closed channel happened
    dropClose,      \* the value broadcastDropClose was built with
    sendCap,        \* cap(Client.send), the value clientSendBuf was built with
    \* history
    removedBy,      \* how the Room removed the connection from clients
    fwdTimes,       \* grains of the forwards of the last second
    burst,          \* frames since the last frame that met a full bucket
    lastEv,         \* grain of the last join/leave the Room processed
    pendFirst,      \* grain of the first join/leave since the last snapshot
    annEv,          \* lastEv at the last presence snapshot
    splitGap,       \* at a snapshot: pendFirst - annEv
    wire,           \* what writePump has written on the transport
    pushLog         \* what the Room has pushed onto Client.send

hubVars == <<mu, rooms, nRooms, dropClose, sendCap>>
roomVars == <<roomName, clients, register, unregister, broadcast,
              presenceDirty, loops, nextTick>>
entryVars == <<epPc, reqRoom, author, room>>
chanVars == <<send, sendClosed, connClosed>>
rateVars == <<tokens, lastRefill, nFrames, fwdTimes, burst>>
pumpVars == <<rdPc, wrPc>>
presVars == <<lastEv, pendFirst, annEv, splitGap>>
obsVars == <<presVars, wire, pushLog>>
vars == <<hubVars, roomVars, entryVars, chanVars, rateVars, pumpVars,
          removedBy, obsVars, now, panicked>>

\* out: what became of each frame of the burst, "fwd" (pushed onto
\* broadcast), "full" (passed the limiter, broadcast was full) or "rate"
NoBurst == [start |-> ZeroTime, out |-> <<>>]
\* late: the Room took an unregister of the connection out of the queue
\* while the connection was not in clients
NotRemoved == [how |-> "none", late |-> FALSE]

\* the process after NewHub, before any request
Started ==
    /\ mu = NoClient
    /\ rooms = [k \in RoomKeys |-> NoRoom]
    /\ nRooms = 0
    /\ roomName = [r \in RoomIds |-> ""]
    /\ clients = [r \in RoomIds |-> {}]
    /\ register = [r \in RoomIds |-> <<>>]
    /\ unregister = [r \in RoomIds |-> <<>>]
    /\ broadcast = [r \in RoomIds |-> <<>>]
    /\ presenceDirty = [r \in RoomIds |-> FALSE]
    /\ loops = [r \in RoomIds |-> 0]
    /\ nextTick = [r \in RoomIds |-> 0]
    /\ epPc = [c \in Clients |-> "idle"]
    /\ reqRoom = [c \in Clients |-> ""]
    /\ author = [c \in Clients |-> ""]
    /\ room = [c \in Clients |-> NoRoom]
    /\ send = [c \in Clients |-> <<>>]
    /\ sendClosed = [c \in Clients |-> FALSE]
    /\ connClosed = [c \in Clients |-> FALSE]
    /\ tokens = [c \in Clients |-> 0]
    /\ lastRefill = [c \in Clients |-> ZeroTime]
    /\ rdPc = [c \in Clients |-> "off"]
    /\ wrPc = [c \in Clients |-> "off"]
    /\ nFrames = [c \in Clients |-> 0]
    /\ now = 0
    /\ panicked = FALSE
    /\ removedBy = [c \in Clients |-> NotRemoved]
    /\ fwdTimes = [c \in Clients |-> <<>>]
    /\ burst = [c \in Clients |-> NoBurst]
    /\ lastEv = [r \in RoomIds |-> ZeroTime]
    /\ pendFirst = [r \in RoomIds |-> ZeroTime]
    /\ annEv = [r \in RoomIds |-> ZeroTime]
    /\ splitGap = [r \in RoomIds |-> NoGap]
    /\ wire = [c \in Clients |-> <<>>]
    /\ pushLog = [c \in Clients |-> <<>>]

Init ==
    /\ Started
    /\ dropClose = broadcastDropClose
    /\ sendCap = clientSendBuf

(* ------------------------------- Hub ---------------------------------- *)

\* a GetRoom that looks the name up as it was given
GetRoomNameAsGiven(name) == name

\* GetRoom, lines 194-196
GetRoomName(name) == IF name = "" THEN DefaultRoom ELSE name

\* LiveChatWS up to the call of GetRoom
Upgrade(c, rn, au) ==
    /\ epPc[c] = "idle"
    /\ reqRoom' = [reqRoom EXCEPT ![c] = rn]
    /\ author' = [author EXCEPT ![c] = IF au = "" THEN DefaultAuthor ELSE au]
    /\ epPc' = [epPc EXCEPT ![c] = "lock"]
    /\ UNCHANGED <<hubVars, roomVars, room, chanVars, rateVars, pumpVars,
                   removedBy, obsVars, now, panicked>>

\* GetRoom without the mutual exclusion of h.mu
GetRoomLockFree(c) ==
    /\ epPc[c] = "lock"
    /\ mu' = c
    /\ epPc' = [epPc EXCEPT ![c] = "lookup"]
    /\ UNCHANGED <<rooms, nRooms, dropClose, sendCap, roomVars, reqRoom,
                   author, room, chanVars, rateVars, pumpVars, removedBy,
                   obsVars, now, panicked>>

\* h.mu.Lock()
GetRoomLock(c) ==
    /\ epPc[c] = "lock"
    /\ mu = NoClient
    /\ mu' = c
    /\ epPc' = [epPc EXCEPT ![c] = "lookup"]
    /\ UNCHANGED <<rooms, nRooms, dropClose, sendCap, roomVars, reqRoom,
                   author, room, chanVars, rateVars, pumpVars, removedBy,
                   obsVars, now, panicked>>

\* GetRoom returns r (the deferred h.mu.Unlock() runs) and LiveChatWS
\* constructs the Client (390-397)
GetRoomReturn(c, r) ==
    /\ mu' = NoClient
    /\ room' = [room EXCEPT ![c] = r]
    /\ tokens' = [tokens EXCEPT ![c] = maxMsgsPerSecond * TokenScale]
    /\ lastRefill' = [lastRefill EXCEPT ![c] = now]
    /\ epPc' = [epPc EXCEPT ![c] = "register"]

\* if r, ok := h.rooms[name]; ok { return r }
GetRoomLookup(c) ==
    /\ epPc[c] = "lookup"
    /\ LET name == GetRoomName(reqRoom[c]) IN
       IF rooms[name] # NoRoom
       THEN GetRoomReturn(c, rooms[name])
       ELSE /\ epPc' = [epPc EXCEPT ![c] = "create"]
            /\ UNCHANGED <<mu, room, tokens, lastRefill>>
    /\ UNCHANGED <<rooms, nRooms, dropClose, sendCap, roomVars, reqRoom,
                   author, chanVars, nFrames, fwdTimes, burst, pumpVars,
                   removedBy, obsVars, now, panicked>>

\* r := newRoom(name); h.rooms[name] = r; return r
GetRoomCreate(c) ==
    /\ epPc[c] = "create"
    /\ LET name == GetRoomName(reqRoom[c])
           r == nRooms + 1
       IN /\ nRooms' = r
          /\ roomName' = [roomName EXCEPT ![r] = name]
          /\ loops' = [loops EXCEPT ![r] = @ + 1]
          /\ nextTick' = [nextTick EXCEPT ![r] = now + presenceDebounce]
          /\ rooms' = [rooms EXCEPT ![name] = r]
          /\ GetRoomReturn(c, r)
    /\ UNCHANGED <<clients, register, unregister, broadcast, presenceDirty,
                   dropClose, sendCap, reqRoom, author, chanVars, nFrames,
                   fwdTimes, burst, pumpVars, removedBy, obsVars, now,
                   panicked>>

(* -------------------------- LiveChatWS: join --------------------------- *)

\* case room.register <- client, then go writePump(), go readPump()
Register(c) ==
    /\ epPc[c] = "register"
    /\ Len(register[room[c]]) < roomRegisterBuf
    /\ register' = [register EXCEPT ![room[c]] = Append(@, c)]
    /\ epPc' = [epPc EXCEPT ![c] = "started"]
    /\ rdPc' = [rdPc EXCEPT ![c] = "read"]
    /\ wrPc' = [wrPc EXCEPT ![c] = "select"]
    /\ UNCHANGED <<hubVars, roomName, clients, unregister, broadcast,
                   presenceDirty, loops, nextTick, reqRoom, author, room,
                   chanVars, rateVars, removedBy, obsVars, now, panicked>>

\* an entry point that starts the pumps although the join timed out
RegisterTimeoutStart(c) ==
    /\ epPc[c] = "register"
    /\ Len(register[room[c]]) >= roomRegisterBuf
    /\ epPc' = [epPc EXCEPT ![c] = "aborted"]
    /\ rdPc' = [rdPc EXCEPT ![c] = "read"]
    /\ wrPc' = [wrPc EXCEPT ![c] = "select"]
    /\ UNCHANGED <<hubVars, roomVars, reqRoom, author, room, chanVars,
                   rateVars, removedBy, obsVars, now, panicked>>

\* case <-time.After(registerTimeout): conn.Close(); return
RegisterTimeout(c) ==
    /\ epPc[c] = "register"
    /\ Len(register[room[c]]) >= roomRegisterBuf
    /\ connClosed' = [connClosed EXCEPT ![c] = TRUE]
    /\ epPc' = [epPc EXCEPT ![c] = "aborted"]
    /\ UNCHANGED <<hubVars, roomVars, reqRoom, author, room, send, sendClosed,
                   rateVars, pumpVars, removedBy, obsVars, now, panicked>>

(* ------------------------------ Room.run ------------------------------ *)

\* members whose outbound queue has no free slot: c.send <- msg would block
Full(r) == {c \in clients[r] : Len(send[c]) >= sendCap}

\* a fan-out that passes over a member whose queue is full
PushOrDropSkip(r, msg, how) ==
    /\ send' = [c \in Clients |->
                  IF c \in clients[r] \ Full(r) THEN Append(send[c], msg)
                  ELSE send[c]]
    /\ UNCHANGED <<sendClosed, clients, panicked, removedBy>>

\* a fan-out that closes the queue of a full member and keeps the member
PushOrDropNoDelete(r, msg, how) ==
    /\ send' = [c \in Clients |->
                  IF c \in clients[r] \ Full(r) THEN Append(send[c], msg)
                  ELSE send[c]]
    /\ sendClosed' = [c \in Clients |-> sendClosed[c] \/ c \in Full(r)]
    /\ panicked' = (panicked \/ \E c \in clients[r] : sendClosed[c])
    /\ removedBy' = [c \in Clients |->
                       IF c \in Full(r)
                       THEN [removedBy[c] EXCEPT !.how = how]
                       ELSE removedBy[c]]
    /\ UNCHANGED clients

\* a fan-out over the members of the Room that the message names
PushOrDropNamed(r, msg, how) ==
    LET t == IF msg.room \in DOMAIN rooms /\ rooms[msg.room] # NoRoom
             THEN rooms[msg.room] ELSE r
    IN /\ send' = [c \in Clients |->
                     IF c \in clients[t] \ Full(t) THEN Append(send[c], msg)
                     ELSE send[c]]
       /\ sendClosed' = [c \in Clients |-> sendClosed[c] \/ c \in Full(t)]
       /\ clients' = [clients EXCEPT ![t] = @ \ Full(t)]
       /\ panicked' = (panicked \/ \E c \in clients[t] : sendClosed[c])
       /\ removedBy' = [c \in Clients |->
                          IF c \in Full(t)
                          THEN [removedBy[c] EXCEPT !.how = how]
                          ELSE removedBy[c]]

\* the fan-out loop of Room.run (140-149) and of broadcastPresence (168-175):
\* a non-blocking push to every member, close and delete when it fails.
\* A send on a closed channel panics.
PushOrDrop(r, msg, how) ==
    /\ send' = [c \in Clients |->
                  IF c \in clients[r] \ Full(r) THEN Append(send[c], msg)
                  ELSE send[c]]
    /\ sendClosed' = [c \in Clients |-> sendClosed[c] \/ c \in Full(r)]
    /\ clients' = [clients EXCEPT ![r] = @ \ Full(r)]
    /\ panicked' = (panicked \/ \E c \in clients[r] : sendClosed[c])
    /\ removedBy' = [c \in Clients |->
                       IF c \in Full(r)
                       THEN [removedBy[c] EXCEPT !.how = how]
                       ELSE removedBy[c]]

\* case c := <-r.register
RegisterCase(r) ==
    /\ loops[r] > 0
    /\ register[r] # <<>>
    /\ clients' = [clients EXCEPT ![r] = @ \cup {Head(register[r])}]
    /\ presenceDirty' = [presenceDirty EXCEPT ![r] = TRUE]
    /\ register' = [register EXCEPT ![r] = Tail(@)]
    /\ UNCHANGED <<hubVars, roomName, unregister, broadcast, loops, nextTick,
                   entryVars, chanVars, rateVars, pumpVars, removedBy, now,
                   panicked>>

\* an unregister case without the membership test
UnregisterCaseBlind(r) ==
    /\ loops[r] > 0
    /\ unregister[r] # <<>>
    /\ LET c == Head(unregister[r]) IN
       /\ clients' = [clients EXCEPT ![r] = @ \ {c}]
       /\ sendClosed' = [sendClosed EXCEPT ![c] = TRUE]
       /\ panicked' = (panicked \/ sendClosed[c])
       /\ presenceDirty' = [presenceDirty EXCEPT ![r] = TRUE]
       /\ removedBy' = [removedBy EXCEPT ![c].late = c \notin clients[r]]
    /\ unregister' = [unregister EXCEPT ![r] = Tail(@)]
    /\ UNCHANGED <<hubVars, roomName, register, broadcast, loops, nextTick,
                   entryVars, send, connClosed, rateVars, pumpVars, now>>

\* an unregister case that takes a Room without members out of Hub.rooms
UnregisterCaseReap(r) ==
    /\ loops[r] > 0
    /\ unregister[r] # <<>>
    /\ LET c == Head(unregister[r]) IN
       IF c \in clients[r]
       THEN /\ clients' = [clients EXCEPT ![r] = @ \ {c}]
            /\ sendClosed' = [sendClosed EXCEPT ![c] = TRUE]
            /\ panicked' = (panicked \/ sendClosed[c])
            /\ presenceDirty' = [presenceDirty EXCEPT ![r] = TRUE]
            /\ removedBy' = [removedBy EXCEPT ![c].how = "unregister"]
            /\ rooms' = IF clients[r] = {c}
                        THEN [rooms EXCEPT ![roomName[r]] = NoRoom]
                        ELSE rooms
       ELSE /\ removedBy' = [removedBy EXCEPT ![c].late = TRUE]
            /\ UNCHANGED <<clients, sendClosed, panicked, presenceDirty,
                           rooms>>
    /\ unregister' = [unregister EXCEPT ![r] = Tail(@)]
    /\ UNCHANGED <<mu, nRooms, dropClose, sendCap, roomName, register,
                   broadcast, loops, nextTick, entryVars, send, connClosed,
                   rateVars, pumpVars, now>>

\* case c := <-r.unregister; closing a closed channel panics
UnregisterCase(r) ==
    /\ loops[r] > 0
    /\ unregister[r] # <<>>
    /\ LET c == Head(unregister[r]) IN
       IF c \in clients[r]
       THEN /\ clients' = [clients EXCEPT ![r] = @ \ {c}]
            /\ sendClosed' = [sendClosed EXCEPT ![c] = TRUE]
            /\ panicked' = (panicked \/ sendClosed[c])
            /\ presenceDirty' = [presenceDirty EXCEPT ![r] = TRUE]
            /\ removedBy' = [removedBy EXCEPT ![c].how = "unregister"]
       ELSE /\ removedBy' = [removedBy EXCEPT ![c].late = TRUE]
            /\ UNCHANGED <<clients, sendClosed, panicked, presenceDirty>>
    /\ unregister' = [unregister EXCEPT ![r] = Tail(@)]
    /\ UNCHANGED <<hubVars, roomName, register, broadcast, loops, nextTick,
                   entryVars, send, connClosed, rateVars, pumpVars, now>>

\* a broadcast case that fans the payload out and leaves it on the queue
BroadcastCaseKeep(r) ==
    /\ loops[r] > 0
    /\ broadcast[r] # <<>>
    /\ clients[r] # {}
    /\ PushOrDrop(r, Head(broadcast[r]), "chat")
    /\ presenceDirty' = [presenceDirty EXCEPT ![r] = @ \/ Full(r) # {}]
    /\ UNCHANGED <<hubVars, roomName, register, unregister, broadcast, loops,
                   nextTick, entryVars, connClosed, rateVars, pumpVars, now>>

\* a broadcast case that waits until no member's queue is full
BroadcastCaseWait(r) ==
    /\ loops[r] > 0
    /\ broadcast[r] # <<>>
    /\ Full(r) = {}
    /\ PushOrDrop(r, Head(broadcast[r]), "chat")
    /\ UNCHANGED presenceDirty
    /\ broadcast' = [broadcast EXCEPT ![r] = Tail(@)]
    /\ UNCHANGED <<hubVars, roomName, register, unregister, loops, nextTick,
                   entryVars, connClosed, rateVars, pumpVars, now>>

\* case msg := <-r.broadcast
BroadcastCase(r) ==
    /\ loops[r] > 0
    /\ broadcast[r] # <<>>
    /\ PushOrDrop(r, Head(broadcast[r]), "chat")
    /\ presenceDirty' = [presenceDirty EXCEPT ![r] = @ \/ Full(r) # {}]
    /\ broadcast' = [broadcast EXCEPT ![r] = Tail(@)]
    /\ UNCHANGED <<hubVars, roomName, register, unregister, loops, nextTick,
                   entryVars, connClosed, rateVars, pumpVars, now>>

\* a snapshot that counts the members left after the fan-out
PresenceMsgAfterDrop(r) ==
    [type |-> "presence", room |-> roomName[r],
     viewers |-> Cardinality(clients[r] \ Full(r))]

\* the PresenceMessage of broadcastPresence (161-166)
PresenceMsg(r) ==
    [type |-> "presence", room |-> roomName[r],
     viewers |-> Cardinality(clients[r])]

\* a presence fan-out that closes the queue of a full member and keeps it
broadcastPresenceKeep(r) == PushOrDropNoDelete(r, PresenceMsg(r), "presence")

\* broadcastPresence
broadcastPresence(r) == PushOrDrop(r, PresenceMsg(r), "presence")

\* a ticker case that sends a snapshot at every tick
TickerCaseEveryTick(r) ==
    /\ loops[r] > 0
    /\ PushOrDrop(r, [type |-> "presence", room |-> roomName[r],
                      viewers |-> Cardinality(clients[r])], "presence")
    /\ presenceDirty' = [presenceDirty EXCEPT ![r] = FALSE]
    /\ UNCHANGED <<hubVars, roomName, register, unregister, broadcast, loops,
                   entryVars, connClosed, rateVars, pumpVars, now>>

\* a ticker case that sends no snapshot of an empty Room
TickerCaseSkipEmpty(r) ==
    /\ loops[r] > 0
    /\ IF presenceDirty[r] /\ clients[r] # {}
       THEN /\ broadcastPresence(r)
            /\ presenceDirty' = [presenceDirty EXCEPT ![r] = FALSE]
       ELSE UNCHANGED <<send, sendClosed, clients, panicked, removedBy,
                        presenceDirty>>
    /\ UNCHANGED <<hubVars, roomName, register, unregister, broadcast, loops,
                   entryVars, connClosed, rateVars, pumpVars, now>>

\* case <-presenceTicker.C
TickerCase(r) ==
    /\ loops[r] > 0
    /\ IF presenceDirty[r]
       THEN /\ broadcastPresence(r)
            /\ presenceDirty' = [presenceDirty EXCEPT ![r] = FALSE]
       ELSE UNCHANGED <<send, sendClosed, clients, panicked, removedBy,
                        presenceDirty>>
    /\ UNCHANGED <<hubVars, roomName, register, unregister, broadcast, loops,
                   entryVars, connClosed, rateVars, pumpVars, now>>

\* history of the joins and leaves: one more was processed at this grain
ObserveEvent(r) ==
    /\ lastEv' = [lastEv EXCEPT ![r] = now]
    /\ pendFirst' = [pendFirst EXCEPT ![r] = IF @ = ZeroTime THEN now ELSE @]
    /\ UNCHANGED <<annEv, splitGap, wire, pushLog>>

\* history of the joins and leaves: a snapshot announces the pending ones
ObserveSnapshot(r) ==
    IF pendFirst[r] = ZeroTime
    THEN UNCHANGED obsVars
    ELSE /\ splitGap' = [splitGap EXCEPT ![r] =
                           IF annEv[r] = ZeroTime THEN @
                           ELSE pendFirst[r] - annEv[r]]
         /\ annEv' = [annEv EXCEPT ![r] = lastEv[r]]
         /\ pendFirst' = [pendFirst EXCEPT ![r] = ZeroTime]
         /\ UNCHANGED <<lastEv, wire, pushLog>>

\* history of the outbound queues: the fan-out of msg appended it to the
\* queue of every member that had room for it
ObservePush(r, msg) ==
    /\ pushLog' = [c \in Clients |->
                     IF c \in clients[r] \ Full(r)
                     THEN Append(pushLog[c], msg)
                     ELSE pushLog[c]]
    /\ UNCHANGED <<presVars, wire>>

\* the Room loop with the ticker's timing left open
RoomRegister(r) == RegisterCase(r) /\ UNCHANGED obsVars
RoomUnregister(r) == UnregisterCase(r) /\ UNCHANGED obsVars
RoomBroadcast(r) == BroadcastCase(r) /\ UNCHANGED obsVars
RoomTick(r) == TickerCase(r) /\ UNCHANGED <<nextTick, obsVars>>

\* the Room loop on the clock: the ticker fires every presenceDebounce
RoomRegisterTimed(r) == RegisterCase(r) /\ ObserveEvent(r)

RoomUnregisterTimed(r) ==
    /\ UnregisterCase(r)
    /\ IF Head(unregister[r]) \in clients[r]
       THEN ObserveEvent(r)
       ELSE UNCHANGED obsVars

RoomTickTimed(r) ==
    /\ now = nextTick[r]
    /\ TickerCase(r)
    /\ nextTick' = [nextTick EXCEPT ![r] = @ + presenceDebounce]
    /\ IF presenceDirty[r] THEN ObserveSnapshot(r) ELSE UNCHANGED obsVars

(* ----------------------- validation, rate limit ------------------------ *)

FullBucket == maxMsgsPerSecond * TokenScale
\* a refill at twice the rate
RefillTwice == (2 * maxMsgsPerSecond * TokenScale) \div GrainsPerSecond
\* elapsed * float64(maxMsgsPerSecond) for an elapsed time of one grain
RefillPerGrain == (maxMsgsPerSecond * TokenScale) \div GrainsPerSecond

\* a limiter that takes no token for a frame it lets pass
allowMessageFree(tok, last, t) ==
    LET last1 == IF last = ZeroTime THEN t ELSE last
        tok1 == IF last = ZeroTime THEN FullBucket ELSE tok
        elapsed == t - last1
        sum == tok1 + elapsed * RefillPerGrain
        tok2 == IF elapsed > 0
                THEN (IF sum > FullBucket THEN FullBucket ELSE sum)
                ELSE tok1
        last2 == IF elapsed > 0 THEN t ELSE last1
    IN  [ok |-> tok2 >= TokenScale, tokens |-> tok2, lastRefill |-> last2,
         refilled |-> tok2]

\* a limiter whose refill is not cut off at a full bucket
allowMessageNoCap(tok, last, t) ==
    LET last1 == IF last = ZeroTime THEN t ELSE last
        tok1 == IF last = ZeroTime THEN FullBucket ELSE tok
        elapsed == t - last1
        tok2 == IF elapsed > 0 THEN tok1 + elapsed * RefillPerGrain ELSE tok1
        last2 == IF elapsed > 0 THEN t ELSE last1
    IN  IF tok2 >= TokenScale
        THEN [ok |-> TRUE, tokens |-> tok2 - TokenScale, lastRefill |-> last2,
              refilled |-> tok2]
        ELSE [ok |-> FALSE, tokens |-> tok2, lastRefill |-> last2,
              refilled |-> tok2]

\* allowMessage(now) on a bucket (tok, last): the verdict and the new bucket;
\* refilled is c.tokens at line 230
allowMessage(tok, last, t) ==
    LET last1 == IF last = ZeroTime THEN t ELSE last
        tok1 == IF last = ZeroTime THEN FullBucket ELSE tok
        elapsed == t - last1
        sum == tok1 + elapsed * RefillPerGrain
        tok2 == IF elapsed > 0
                THEN (IF sum > FullBucket THEN FullBucket ELSE sum)
                ELSE tok1
        last2 == IF elapsed > 0 THEN t ELSE last1
    IN  IF tok2 >= TokenScale
        THEN [ok |-> TRUE, tokens |-> tok2 - TokenScale, lastRefill |-> last2,
              refilled |-> tok2]
        ELSE [ok |-> FALSE, tokens |-> tok2, lastRefill |-> last2,
              refilled |-> tok2]

\* unicode.IsSpace on the characters the inputs use
IsSpace(ch) == ch \in {" ", "\t", "\n", "\r"}

RECURSIVE TrimLeft(_)
TrimLeft(s) ==
    IF s # <<>> /\ IsSpace(Head(s)) THEN TrimLeft(Tail(s)) ELSE s

RECURSIVE TrimRight(_)
TrimRight(s) ==
    IF s # <<>> /\ IsSpace(s[Len(s)])
    THEN TrimRight(SubSeq(s, 1, Len(s) - 1))
    ELSE s

\* strings.TrimSpace
TrimSpace(s) == TrimRight(TrimLeft(s))

\* a sanitizer that cuts a long text down to maxTextRunes
sanitizeTextTruncate(s) ==
    LET t == TrimSpace(s) IN
    IF t = <<>> THEN [text |-> <<>>, ok |-> FALSE]
    ELSE IF Len(t) > maxTextRunes
         THEN [text |-> SubSeq(t, 1, maxTextRunes), ok |-> TRUE]
    ELSE [text |-> t, ok |-> TRUE]

\* sanitizeText: a text is a sequence of code points
sanitizeText(s) ==
    LET t == TrimSpace(s) IN
    IF t = <<>> THEN [text |-> <<>>, ok |-> FALSE]
    ELSE IF Len(t) > maxTextRunes THEN [text |-> <<>>, ok |-> FALSE]
    ELSE [text |-> t, ok |-> TRUE]

\* connections that have joined c's room and are still connected
Joined(c) ==
    {d \in Clients : /\ epPc[d] = "started"
                     /\ room[d] = room[c]
                     /\ rdPc[d] = "read"
                     /\ wrPc[d] = "select"
                     /\ ~connClosed[d]
                     /\ ~sendClosed[d]}

\* a message that keeps the type the client sent
ChatMsgAsSent(c, f, txt) ==
    [type |-> f.type,
     author |-> IF f.author = "" THEN author[c] ELSE f.author,
     text |-> txt,
     room |-> IF f.room = "" THEN roomName[room[c]] ELSE f.room,
     from |-> c, n |-> nFrames[c] + 1, audience |-> Joined(c)]

\* a message whose type is filled in only when the client left it out
ChatMsgTypeIfEmpty(c, f, txt) ==
    [type |-> IF f.type = "" THEN "chat" ELSE f.type,
     author |-> IF f.author = "" THEN author[c] ELSE f.author,
     text |-> txt,
     room |-> IF f.room = "" THEN roomName[room[c]] ELSE f.room,
     from |-> c, n |-> nFrames[c] + 1, audience |-> Joined(c)]

\* readPump 292-300: the ChatMessage that is marshalled. from, n and
\* audience are history: the connection that forwarded it, as its n-th
\* frame, while the connections of audience were joined
ChatMsg(c, f, txt) ==
    [type |-> "chat",
     author |-> IF f.author = "" THEN author[c] ELSE f.author,
     text |-> txt,
     room |-> IF f.room = "" THEN roomName[room[c]] ELSE f.room,
     from |-> c, n |-> nFrames[c] + 1, audience |-> Joined(c)]

\* forwards not older than one second at grain t
Recent(ts, t) == SelectSeq(ts, LAMBDA x : x >= t - GrainsPerSecond)

(* ------------------------------ readPump ------------------------------- *)

\* a readPump that returns on a frame it does not accept
ReadIterationStrict(c, f) ==
    /\ rdPc[c] = "read"
    /\ ~connClosed[c]
    /\ LET am == allowMessage(tokens[c], lastRefill[c], now)
           san == sanitizeText(f.text)
           accepted == am.ok /\ f.json /\ san.ok
           space == Len(broadcast[room[c]]) < roomBroadcastBuf
       IN /\ tokens' = [tokens EXCEPT ![c] = am.tokens]
          /\ lastRefill' = [lastRefill EXCEPT ![c] = am.lastRefill]
          /\ broadcast' = IF accepted /\ space
                          THEN [broadcast EXCEPT ![room[c]] =
                                   Append(@, ChatMsg(c, f, san.text))]
                          ELSE broadcast
          /\ rdPc' = IF accepted THEN rdPc ELSE [rdPc EXCEPT ![c] = "done"]
          /\ connClosed' = IF accepted THEN connClosed
                           ELSE [connClosed EXCEPT ![c] = TRUE]
    /\ nFrames' = [nFrames EXCEPT ![c] = @ + 1]
    /\ UNCHANGED <<hubVars, roomName, clients, register, unregister,
                   presenceDirty, loops, nextTick, entryVars, send,
                   sendClosed, wrPc, removedBy, obsVars, now, panicked>>

\* a readPump that waits for a free slot of the broadcast queue
ReadIterationBlocking(c, f) ==
    /\ rdPc[c] = "read"
    /\ ~connClosed[c]
    /\ LET am == allowMessage(tokens[c], lastRefill[c], now)
           san == sanitizeText(f.text)
           accepted == am.ok /\ f.json /\ san.ok
       IN /\ accepted => Len(broadcast[room[c]]) < roomBroadcastBuf
          /\ tokens' = [tokens EXCEPT ![c] = am.tokens]
          /\ lastRefill' = [lastRefill EXCEPT ![c] = am.lastRefill]
          /\ broadcast' = IF accepted
                          THEN [broadcast EXCEPT ![room[c]] =
                                   Append(@, ChatMsg(c, f, san.text))]
                          ELSE broadcast
    /\ nFrames' = [nFrames EXCEPT ![c] = @ + 1]
    /\ UNCHANGED <<hubVars, roomName, clients, register, unregister,
                   presenceDirty, loops, nextTick, entryVars, send,
                   sendClosed, connClosed, rdPc, wrPc, removedBy, obsVars,
                   now, panicked>>

\* a readPump that parses and sanitizes a frame before it asks the limiter
ReadIterationParseFirst(c, f) ==
    /\ rdPc[c] = "read"
    /\ ~connClosed[c]
    /\ LET am == allowMessage(tokens[c], lastRefill[c], now)
           san == sanitizeText(f.text)
           valid == f.json /\ san.ok
           space == Len(broadcast[room[c]]) < roomBroadcastBuf
       IN /\ tokens' = IF valid THEN [tokens EXCEPT ![c] = am.tokens]
                       ELSE tokens
          /\ lastRefill' = IF valid
                           THEN [lastRefill EXCEPT ![c] = am.lastRefill]
                           ELSE lastRefill
          /\ broadcast' = IF valid /\ am.ok /\ space
                          THEN [broadcast EXCEPT ![room[c]] =
                                   Append(@, ChatMsg(c, f, san.text))]
                          ELSE broadcast
    /\ nFrames' = [nFrames EXCEPT ![c] = @ + 1]
    /\ UNCHANGED <<hubVars, roomName, clients, register, unregister,
                   presenceDirty, loops, nextTick, entryVars, send,
                   sendClosed, connClosed, rdPc, wrPc, removedBy, obsVars,
                   now, panicked>>

\* one iteration of the for loop of readPump (271-316) on frame f; leaving
\* the loop runs the deferred function (255-262): unregister unless the
\* queue stays full for unregisterTimeout, then conn.Close()
ReadIteration(c, f) ==
    /\ rdPc[c] = "read"
    /\ ~connClosed[c]
    /\ LET am == allowMessage(tokens[c], lastRefill[c], now)
           san == sanitizeText(f.text)
           valid == f.json /\ san.ok
           accepted == am.ok /\ valid
           space == Len(broadcast[room[c]]) < roomBroadcastBuf
           pushed == accepted /\ space
           exit == accepted /\ ~space /\ dropClose
       IN /\ tokens' = [tokens EXCEPT ![c] = am.tokens]
          /\ lastRefill' = [lastRefill EXCEPT ![c] = am.lastRefill]
          /\ broadcast' = IF pushed
                          THEN [broadcast EXCEPT ![room[c]] =
                                   Append(@, ChatMsg(c, f, san.text))]
                          ELSE broadcast
          /\ rdPc' = IF exit THEN [rdPc EXCEPT ![c] = "done"] ELSE rdPc
          /\ connClosed' = IF exit THEN [connClosed EXCEPT ![c] = TRUE]
                           ELSE connClosed
          /\ unregister' =
                IF exit /\ Len(unregister[room[c]]) < roomUnregisterBuf
                THEN [unregister EXCEPT ![room[c]] = Append(@, c)]
                ELSE unregister
    /\ nFrames' = [nFrames EXCEPT ![c] = @ + 1]
    /\ UNCHANGED <<hubVars, roomName, clients, register, presenceDirty, loops,
                   nextTick, entryVars, send, sendClosed, wrPc, removedBy,
                   obsVars, now, panicked>>

\* a readPump that takes its connection out of Room.clients itself
ReadErrorDirect(c) ==
    /\ rdPc[c] = "read"
    /\ clients' = [clients EXCEPT ![room[c]] = @ \ {c}]
    /\ connClosed' = [connClosed EXCEPT ![c] = TRUE]
    /\ rdPc' = [rdPc EXCEPT ![c] = "done"]
    /\ UNCHANGED <<hubVars, roomName, register, unregister, broadcast,
                   presenceDirty, loops, nextTick, entryVars, send,
                   sendClosed, rateVars, wrPc, removedBy, obsVars, now,
                   panicked>>

\* ReadMessage returns an error (the peer closed, the read deadline passed,
\* the frame was over the read limit, or the transport was closed): return,
\* and the deferred function unregisters
ReadError(c) ==
    /\ rdPc[c] = "read"
    /\ unregister' =
          IF Len(unregister[room[c]]) < roomUnregisterBuf
          THEN [unregister EXCEPT ![room[c]] = Append(@, c)]
          ELSE unregister
    /\ connClosed' = [connClosed EXCEPT ![c] = TRUE]
    /\ rdPc' = [rdPc EXCEPT ![c] = "done"]
    /\ UNCHANGED <<hubVars, roomName, clients, register, broadcast,
                   presenceDirty, loops, nextTick, entryVars, send,
                   sendClosed, rateVars, wrPc, removedBy, obsVars, now,
                   panicked>>

\* ReadMessage returns an error; the deferred function has yet to run
ReadFail(c) ==
    /\ rdPc[c] = "read"
    /\ rdPc' = [rdPc EXCEPT ![c] = "defer"]
    /\ UNCHANGED <<hubVars, roomVars, entryVars, chanVars, rateVars, wrPc,
                   removedBy, obsVars, now, panicked>>

\* a deferred function that waits for a free slot of the unregister queue
ReadDeferBlocking(c) ==
    /\ rdPc[c] = "defer"
    /\ Len(unregister[room[c]]) < roomUnregisterBuf
    /\ unregister' = [unregister EXCEPT ![room[c]] = Append(@, c)]
    /\ connClosed' = [connClosed EXCEPT ![c] = TRUE]
    /\ rdPc' = [rdPc EXCEPT ![c] = "done"]
    /\ UNCHANGED <<hubVars, roomName, clients, register, broadcast,
                   presenceDirty, loops, nextTick, entryVars, send,
                   sendClosed, rateVars, wrPc, removedBy, obsVars, now,
                   panicked>>

\* the deferred function of readPump (255-262): the unregister goes onto
\* the queue, or the queue stays full for unregisterTimeout and it is
\* given up; then conn.Close()
ReadDefer(c) ==
    /\ rdPc[c] = "defer"
    /\ unregister' =
          IF Len(unregister[room[c]]) < roomUnregisterBuf
          THEN [unregister EXCEPT ![room[c]] = Append(@, c)]
          ELSE unregister
    /\ connClosed' = [connClosed EXCEPT ![c] = TRUE]
    /\ rdPc' = [rdPc EXCEPT ![c] = "done"]
    /\ UNCHANGED <<hubVars, roomName, clients, register, broadcast,
                   presenceDirty, loops, nextTick, entryVars, send,
                   sendClosed, rateVars, wrPc, removedBy, obsVars, now,
                   panicked>>

\* the burst the history follows: BurstFrames frames within BurstWindow
\* (200 ms, in whole grains) of a frame that met a full bucket
BurstWindow == GrainsPerSecond \div 5
BurstFrames == maxMsgsPerSecond + 2

\* history of the rate limit: the frame f of c was read at this grain
ObserveFrame(c, f) ==
    LET am == allowMessage(tokens[c], lastRefill[c], now)
        pushed == broadcast'[room[c]] # broadcast[room[c]]
        b == IF am.refilled = FullBucket
             THEN [NoBurst EXCEPT !.start = now]
             ELSE burst[c]
    IN /\ fwdTimes' = [fwdTimes EXCEPT ![c] =
                         IF pushed THEN Append(Recent(@, now), now)
                         ELSE Recent(@, now)]
       /\ burst' = [burst EXCEPT ![c] =
                      IF \/ b.start = ZeroTime
                         \/ Len(b.out) >= BurstFrames
                         \/ ~(f.json /\ sanitizeText(f.text).ok)
                      THEN NoBurst
                      ELSE [b EXCEPT !.out =
                              Append(@, IF pushed THEN "fwd"
                                        ELSE IF am.ok THEN "full"
                                        ELSE "rate")]]

\* the iteration with and without the history of the rate limit
ReadFrame(c, f) == ReadIteration(c, f) /\ UNCHANGED <<fwdTimes, burst>>
ReadFrameTimed(c, f) == ReadIteration(c, f) /\ ObserveFrame(c, f)

(* ------------------------------ writePump ------------------------------ *)

\* a writePump that returns and leaves the transport open
WriteExitOpen(c) ==
    /\ wrPc' = [wrPc EXCEPT ![c] = "done"]
    /\ UNCHANGED connClosed

\* return from writePump: the deferred conn.Close()
WriteExit(c) ==
    /\ connClosed' = [connClosed EXCEPT ![c] = TRUE]
    /\ wrPc' = [wrPc EXCEPT ![c] = "done"]

\* a wake-up that writes everything that is queued
WriteSelectAll(c, failAt) ==
    /\ wrPc[c] = "select"
    /\ send[c] # <<>> \/ sendClosed[c]
    /\ failAt <= Len(send[c])
    /\ LET batch == Len(send[c])
           failed == IF connClosed[c] /\ batch > 0 THEN 1 ELSE failAt
           taken == IF failed > 0 THEN failed ELSE batch
       IN /\ send' = [send EXCEPT ![c] = SubSeq(@, taken + 1, Len(@))]
          /\ IF failed > 0 \/ sendClosed[c]
             THEN WriteExit(c)
             ELSE UNCHANGED <<connClosed, wrPc>>
    /\ UNCHANGED <<hubVars, roomVars, entryVars, sendClosed, rateVars, rdPc,
                   removedBy, presVars, pushLog, now, panicked>>

\* one wake-up on c.send (329-356): the message, then up to drainBatch
\* queued ones; failAt > 0: that write fails. A closed and drained channel
\* ends the pump with a close frame.
WriteSelect(c, failAt) ==
    /\ wrPc[c] = "select"
    /\ send[c] # <<>> \/ sendClosed[c]
    /\ failAt <= Len(send[c])
    /\ failAt <= 1 + drainBatch
    /\ LET batch == IF Len(send[c]) > 1 + drainBatch
                    THEN 1 + drainBatch ELSE Len(send[c])
           failed == IF connClosed[c] /\ batch > 0 THEN 1 ELSE failAt
           taken == IF failed > 0 THEN failed ELSE batch
       IN /\ send' = [send EXCEPT ![c] = SubSeq(@, taken + 1, Len(@))]
          /\ IF failed > 0 \/ (sendClosed[c] /\ taken = Len(send[c])
                               /\ taken <= drainBatch)
             THEN WriteExit(c)
             ELSE UNCHANGED <<connClosed, wrPc>>
    /\ UNCHANGED <<hubVars, roomVars, entryVars, sendClosed, rateVars, rdPc,
                   removedBy, presVars, pushLog, now, panicked>>

\* the close frame of 332 and 347
CloseFrame == [type |-> "close"]

\* a wake-up that writes the newest queued message first
ObserveWriteNewestFirst(c, failAt) ==
    LET batch == IF Len(send[c]) > 1 + drainBatch
                 THEN 1 + drainBatch ELSE Len(send[c])
        failed == IF connClosed[c] /\ batch > 0 THEN 1 ELSE failAt
        n == IF failed > 0 THEN failed - 1 ELSE batch
        written == [i \in 1..n |-> send[c][batch + 1 - i]]
    IN wire' = [wire EXCEPT ![c] = @ \o written]

\* history of the transport: the wake-up wrote the messages before the
\* failing one, and the close frame unless the transport was closed
ObserveWrite(c, failAt) ==
    LET batch == IF Len(send[c]) > 1 + drainBatch
                 THEN 1 + drainBatch ELSE Len(send[c])
        failed == IF connClosed[c] /\ batch > 0 THEN 1 ELSE failAt
        written == IF failed > 0 THEN SubSeq(send[c], 1, failed - 1)
                   ELSE SubSeq(send[c], 1, batch)
        closing == /\ failed = 0
                   /\ sendClosed[c]
                   /\ batch = Len(send[c])
                   /\ batch <= drainBatch
                   /\ ~connClosed[c]
    IN wire' = [wire EXCEPT ![c] =
                  @ \o written \o (IF closing THEN <<CloseFrame>> ELSE <<>>)]

\* a ping whose failure does not end writePump
WritePingIgnore(c, err) ==
    /\ wrPc[c] = "select"
    /\ UNCHANGED vars

\* case <-ticker.C (358-362): the ping write fails on a closed transport
PingCase(c, err) ==
    /\ wrPc[c] = "select"
    /\ IF connClosed[c] \/ err
       THEN WriteExit(c)
       ELSE UNCHANGED <<connClosed, wrPc>>
    /\ UNCHANGED <<hubVars, roomVars, entryVars, send, sendClosed, rateVars,
                   rdPc, removedBy, presVars, pushLog, now, panicked>>

\* the ping frame of 360
PingFrame == [type |-> "ping"]

\* a ticker case that writes no ping after an application message
ObservePingIdle(c, err) ==
    wire' = [wire EXCEPT ![c] =
                IF connClosed[c] \/ err THEN @
                ELSE IF @ # <<>> /\ @[Len(@)] # PingFrame THEN @
                ELSE Append(@, PingFrame)]

\* history of the transport: the ping that was written
ObservePing(c, err) ==
    wire' = [wire EXCEPT ![c] =
                IF connClosed[c] \/ err THEN @ ELSE Append(@, PingFrame)]

WritePing(c, err) == PingCase(c, err) /\ UNCHANGED wire

(* -------------------------------- clock -------------------------------- *)

\* one grain passes; a presence tick that is due is served first
AdvanceTime ==
    /\ now < MaxTime
    /\ \A r \in RoomIds : loops[r] > 0 => now < nextTick[r]
    /\ now' = now + 1
    /\ fwdTimes' = [c \in Clients |-> Recent(fwdTimes[c], now + 1)]
    /\ burst' = [c \in Clients |->
                  IF now + 1 - burst[c].start > BurstWindow THEN NoBurst
                  ELSE burst[c]]
    /\ UNCHANGED <<hubVars, roomVars, entryVars, chanVars, tokens, lastRefill,
                   nFrames, pumpVars, removedBy, obsVars, panicked>>

(* --------------------------- specifications ---------------------------- *)

\* connections are numbered in their order of arrival
Arrive(c) ==
    /\ IF c = 1 THEN TRUE ELSE epPc[c - 1] # "idle"
    /\ \E q \in Queries : Upgrade(c, q.room, q.author)

ReadChat(c) ==
    /\ nFrames[c] < MaxFrames
    /\ \E f \in Frames : ReadFrame(c, f)

WriteWake(c) ==
    \E k \in 0..clientSendBuf : WriteSelect(c, k) /\ UNCHANGED wire

WritePingTick(c) == \E err \in BOOLEAN : WritePing(c, err)

\* every interleaving of the entry point, the Room loops and the pumps, the
\* presence ticker firing at any time
Next ==
    \/ \E c \in Clients : Arrive(c)
    \/ \E c \in Clients : GetRoomLock(c)
    \/ \E c \in Clients : GetRoomLookup(c)
    \/ \E c \in Clients : GetRoomCreate(c)
    \/ \E c \in Clients : Register(c)
    \/ \E c \in Clients : RegisterTimeout(c)
    \/ \E r \in RoomIds : RoomRegister(r)
    \/ \E r \in RoomIds : RoomUnregister(r)
    \/ \E r \in RoomIds : RoomBroadcast(r)
    \/ \E r \in RoomIds : RoomTick(r)
    \/ \E c \in Clients : ReadChat(c)
    \/ \E c \in Clients : ReadError(c)
    \/ \E c \in Clients : WriteWake(c)
    \/ \E c \in Clients : WritePingTick(c)

Spec == Init /\ [][Next]_vars

\* connections to the default room
ArriveDefault(c) ==
    /\ IF c = 1 THEN TRUE ELSE epPc[c - 1] # "idle"
    /\ Upgrade(c, "", "A")

\* the joins, leaves and presence snapshots of one room on the clock
NextPresence ==
    \/ AdvanceTime
    \/ \E c \in Clients : ArriveDefault(c)
    \/ \E c \in Clients : GetRoomLock(c)
    \/ \E c \in Clients : GetRoomLookup(c)
    \/ \E c \in Clients : GetRoomCreate(c)
    \/ \E c \in Clients : Register(c)
    \/ \E c \in Clients : RegisterTimeout(c)
    \/ \E r \in RoomIds : RoomRegisterTimed(r)
    \/ \E r \in RoomIds : RoomUnregisterTimed(r)
    \/ \E r \in RoomIds : RoomTickTimed(r)
    \/ \E c \in Clients : ReadError(c)
    \/ \E c \in Clients : WriteWake(c)

SpecPresence == Init /\ [][NextPresence]_vars

\* the first connection has joined the default room at grain 0: the state
\* after LiveChatWS and the Room's register case, nothing else having run
InitRate ==
    /\ mu = NoClient
    /\ dropClose = broadcastDropClose
    /\ sendCap = clientSendBuf
    /\ rooms = [k \in RoomKeys |-> IF k = DefaultRoom THEN 1 ELSE NoRoom]
    /\ nRooms = 1
    /\ roomName = [r \in RoomIds |-> IF r = 1 THEN DefaultRoom ELSE ""]
    /\ clients = [r \in RoomIds |-> IF r = 1 THEN {1} ELSE {}]
    /\ register = [r \in RoomIds |-> <<>>]
    /\ unregister = [r \in RoomIds |-> <<>>]
    /\ broadcast = [r \in RoomIds |-> <<>>]
    /\ presenceDirty = [r \in RoomIds |-> r = 1]
    /\ loops = [r \in RoomIds |-> IF r = 1 THEN 1 ELSE 0]
    /\ nextTick = [r \in RoomIds |-> IF r = 1 THEN presenceDebounce ELSE 0]
    /\ epPc = [c \in Clients |-> IF c = 1 THEN "started" ELSE "idle"]
    /\ reqRoom = [c \in Clients |-> ""]
    /\ author = [c \in Clients |-> IF c = 1 THEN "A" ELSE ""]
    /\ room = [c \in Clients |-> IF c = 1 THEN 1 ELSE NoRoom]
    /\ send = [c \in Clients |-> <<>>]
    /\ sendClosed = [c \in Clients |-> FALSE]
    /\ connClosed = [c \in Clients |-> FALSE]
    /\ tokens = [c \in Clients |-> IF c = 1 THEN FullBucket ELSE 0]
    /\ lastRefill = [c \in Clients |-> IF c = 1 THEN 0 ELSE ZeroTime]
    /\ rdPc = [c \in Clients |-> IF c = 1 THEN "read" ELSE "off"]
    /\ wrPc = [c \in Clients |-> IF c = 1 THEN "select" ELSE "off"]
    /\ nFrames = [c \in Clients |-> 0]
    /\ now = 0
    /\ panicked = FALSE
    /\ removedBy = [c \in Clients |-> NotRemoved]
    /\ fwdTimes = [c \in Clients |-> <<>>]
    /\ burst = [c \in Clients |-> NoBurst]
    /\ lastEv = [r \in RoomIds |-> ZeroTime]
    /\ pendFirst = [r \in RoomIds |-> ZeroTime]
    /\ annEv = [r \in RoomIds |-> ZeroTime]
    /\ splitGap = [r \in RoomIds |-> NoGap]
    /\ wire = [c \in Clients |-> <<>>]
    /\ pushLog = [c \in Clients |-> <<>>]

ReadRated(c) ==
    /\ nFrames[c] < MaxRateFrames
    /\ \E f \in RateFrames : ReadFrameTimed(c, f)

\* a wake-up of writePump whose writes succeed
WriteDrain(c) == WriteSelect(c, 0) /\ UNCHANGED wire

\* one connection sending frames on the clock, the Room fanning them out
NextRate ==
    \/ AdvanceTime
    \/ \E r \in RoomIds : RoomBroadcast(r)
    \/ \E r \in RoomIds : RoomTickTimed(r)
    \/ \E c \in Clients : ReadRated(c)
    \/ \E c \in Clients : WriteDrain(c)

SpecRate == InitRate /\ [][NextRate]_vars

\* either build of the overload flag
InitOverload ==
    /\ Started
    /\ dropClose \in BOOLEAN
    /\ sendCap = clientSendBuf

ReadValid(c) ==
    /\ nFrames[c] < MaxFrames
    /\ ReadFrame(c, ValidFrame)

\* connections of one room sending valid frames into the broadcast queue
NextOverload ==
    \/ \E c \in Clients : ArriveDefault(c)
    \/ \E c \in Clients : GetRoomLock(c)
    \/ \E c \in Clients : GetRoomLookup(c)
    \/ \E c \in Clients : GetRoomCreate(c)
    \/ \E c \in Clients : Register(c)
    \/ \E c \in Clients : RegisterTimeout(c)
    \/ \E r \in RoomIds : RoomRegister(r)
    \/ \E r \in RoomIds : RoomUnregister(r)
    \/ \E r \in RoomIds : RoomBroadcast(r)
    \/ \E c \in Clients : ReadValid(c)
    \/ \E c \in Clients : WriteWake(c)

SpecOverload == InitOverload /\ [][NextOverload]_vars

ReadOrdered(c) ==
    /\ nFrames[c] < MaxOrderFrames
    /\ ReadFrame(c, ValidFrame)

\* a wake-up of writePump whose writes succeed, on the record
WriteLogged(c) == WriteSelect(c, 0) /\ ObserveWrite(c, 0)

\* connections of one room chatting over transports that do not fail
NextOrder ==
    \/ \E c \in Clients : ArriveDefault(c)
    \/ \E c \in Clients : GetRoomLock(c)
    \/ \E c \in Clients : GetRoomLookup(c)
    \/ \E c \in Clients : GetRoomCreate(c)
    \/ \E c \in Clients : Register(c)
    \/ \E c \in Clients : RegisterTimeout(c)
    \/ \E r \in RoomIds : RoomRegister(r)
    \/ \E r \in RoomIds : RoomBroadcast(r)
    \/ \E c \in Clients : ReadOrdered(c)
    \/ \E c \in Clients : WriteLogged(c)

SpecOrder == Init /\ [][NextOrder]_vars

\* a build whose outbound queues hold one message more
DrainBuf == clientSendBuf + 1

InitDrain ==
    /\ Started
    /\ dropClose = broadcastDropClose
    /\ sendCap = DrainBuf

\* the fan-outs of the Room loop, on the record
RoomBroadcastLogged(r) ==
    /\ BroadcastCase(r)
    /\ ObservePush(r, Head(broadcast[r]))

RoomTickLogged(r) ==
    /\ TickerCase(r)
    /\ IF presenceDirty[r]
       THEN ObservePush(r, PresenceMsg(r))
       ELSE UNCHANGED obsVars
    /\ UNCHANGED nextTick

\* a wake-up of writePump over a queue of DrainBuf slots, on the record
WriteDrained(c) ==
    \E k \in 0..DrainBuf : WriteSelect(c, k) /\ ObserveWrite(c, k)

\* connections of one room chatting, the Room announcing its presence, the
\* writePumps draining queues of more than one message
NextDrain ==
    \/ \E c \in Clients : ArriveDefault(c)
    \/ \E c \in Clients : GetRoomLock(c)
    \/ \E c \in Clients : GetRoomLookup(c)
    \/ \E c \in Clients : GetRoomCreate(c)
    \/ \E c \in Clients : Register(c)
    \/ \E c \in Clients : RegisterTimeout(c)
    \/ \E r \in RoomIds : RoomRegister(r)
    \/ \E r \in RoomIds : RoomBroadcastLogged(r)
    \/ \E r \in RoomIds : RoomTickLogged(r)
    \/ \E c \in Clients : ReadValid(c)
    \/ \E c \in Clients : WriteDrained(c)

SpecDrain == InitDrain /\ [][NextDrain]_vars

\* a chat frame that carries the name rn in its room field
NamedFrame(rn) == Frame(TRUE, "", "", Hello, rn)

ReadNamed(c) ==
    /\ nFrames[c] < MaxFrames
    /\ \E q \in Queries : ReadFrame(c, NamedFrame(GetRoomName(q.room)))

\* connections of several rooms sending frames that name any of the rooms
NextRooms ==
    \/ \E c \in Clients : Arrive(c)
    \/ \E c \in Clients : GetRoomLock(c)
    \/ \E c \in Clients : GetRoomLookup(c)
    \/ \E c \in Clients : GetRoomCreate(c)
    \/ \E c \in Clients : Register(c)
    \/ \E c \in Clients : RegisterTimeout(c)
    \/ \E r \in RoomIds : RoomRegister(r)
    \/ \E r \in RoomIds : RoomBroadcast(r)
    \/ \E c \in Clients : ReadNamed(c)
    \/ \E c \in Clients : WriteDrain(c)

SpecRooms == Init /\ [][NextRooms]_vars

\* the sizes of the frames a peer sends: at the read limit and over it
FrameSizes == {maxMsgSize, maxMsgSize + 1}

\* a readPump that never called SetReadLimit
ReadSizedNoLimit(c, size) ==
    /\ nFrames[c] < MaxFrames
    /\ ReadFrame(c, ValidFrame)

\* c.conn.SetReadLimit(maxMsgSize) (264) and ReadMessage (272): a frame of
\* more than maxMsgSize bytes makes ReadMessage return an error, any other
\* is handed to the loop
ReadSized(c, size) ==
    /\ nFrames[c] < MaxFrames
    /\ IF size > maxMsgSize
       THEN ReadFail(c)
       ELSE ReadFrame(c, ValidFrame)

ReadAnySize(c) == \E size \in FrameSizes : ReadSized(c, size)

\* connections of one room whose peers send frames of any size
NextLimit ==
    \/ \E c \in Clients : ArriveDefault(c)
    \/ \E c \in Clients : GetRoomLock(c)
    \/ \E c \in Clients : GetRoomLookup(c)
    \/ \E c \in Clients : GetRoomCreate(c)
    \/ \E c \in Clients : Register(c)
    \/ \E c \in Clients : RegisterTimeout(c)
    \/ \E r \in RoomIds : RoomRegister(r)
    \/ \E r \in RoomIds : RoomUnregister(r)
    \/ \E r \in RoomIds : RoomBroadcast(r)
    \/ \E c \in Clients : ReadAnySize(c)
    \/ \E c \in Clients : ReadDefer(c)
    \/ \E c \in Clients : WriteDrain(c)

\* the deferred function of a readPump that returned runs
FairLimit == \A c \in Clients : WF_vars(ReadDefer(c))

SpecLimit == Init /\ [][NextLimit]_vars /\ FairLimit

\* connections that ask for no room, for the default room by its name, or
\* for another room
ArriveNamed(c) ==
    /\ IF c = 1 THEN TRUE ELSE epPc[c - 1] # "idle"
    /\ \E rn \in RoomKeys : Upgrade(c, rn, "A")

\* connections joining and leaving the rooms of the Hub
NextRegistry ==
    \/ \E c \in Clients : ArriveNamed(c)
    \/ \E c \in Clients : GetRoomLock(c)
    \/ \E c \in Clients : GetRoomLookup(c)
    \/ \E c \in Clients : GetRoomCreate(c)
    \/ \E c \in Clients : Register(c)
    \/ \E c \in Clients : RegisterTimeout(c)
    \/ \E r \in RoomIds : RoomRegister(r)
    \/ \E r \in RoomIds : RoomUnregister(r)
    \/ \E c \in Clients : ReadFail(c)
    \/ \E c \in Clients : ReadDefer(c)

SpecRegistry == Init /\ [][NextRegistry]_vars

\* a wake-up of writePump, on the record
WriteLive(c) ==
    \E k \in 0..clientSendBuf : WriteSelect(c, k) /\ ObserveWrite(c, k)

\* ReadMessage on a closed transport returns an error
ReadClosed(c) == connClosed[c] /\ ReadFail(c)

\* the ping of writePump on a closed transport fails
PingClosed(c) == connClosed[c] /\ WritePing(c, TRUE)

\* connections of one room joining, chatting and failing
NextLive ==
    \/ \E c \in Clients : ArriveDefault(c)
    \/ \E c \in Clients : GetRoomLock(c)
    \/ \E c \in Clients : GetRoomLookup(c)
    \/ \E c \in Clients : GetRoomCreate(c)
    \/ \E c \in Clients : Register(c)
    \/ \E c \in Clients : RegisterTimeout(c)
    \/ \E r \in RoomIds : RoomRegister(r)
    \/ \E r \in RoomIds : RoomUnregister(r)
    \/ \E r \in RoomIds : RoomBroadcast(r)
    \/ \E c \in Clients : ReadValid(c)
    \/ \E c \in Clients : ReadFail(c)
    \/ \E c \in Clients : ReadDefer(c)
    \/ \E c \in Clients : WriteLive(c)
    \/ \E c \in Clients : WritePingTick(c)

\* the Go scheduler runs every goroutine that can run: a Room loop takes
\* each case that stays ready, a deferred function runs, a pump reads its
\* queue, a read and a ping on a closed transport return
FairLive ==
    /\ \A r \in RoomIds : WF_vars(RoomRegister(r))
    /\ \A r \in RoomIds : WF_vars(RoomUnregister(r))
    /\ \A r \in RoomIds : WF_vars(RoomBroadcast(r))
    /\ \A c \in Clients : WF_vars(ReadDefer(c))
    /\ \A c \in Clients : WF_vars(ReadClosed(c))
    /\ \A c \in Clients : WF_vars(WriteLive(c))
    /\ \A c \in Clients : WF_vars(PingClosed(c))

SpecLive == Init /\ [][NextLive]_vars /\ FairLive

\* connections of one room joining, chatting and failing while the
\* presence ticker fires at any time
NextTicking ==
    \/ \E c \in Clients : ArriveDefault(c)
    \/ \E c \in Clients : GetRoomLock(c)
    \/ \E c \in Clients : GetRoomLookup(c)
    \/ \E c \in Clients : GetRoomCreate(c)
    \/ \E c \in Clients : Register(c)
    \/ \E c \in Clients : RegisterTimeout(c)
    \/ \E r \in RoomIds : RoomRegister(r)
    \/ \E r \in RoomIds : RoomUnregister(r)
    \/ \E r \in RoomIds : RoomBroadcast(r)
    \/ \E r \in RoomIds : RoomTick(r)
    \/ \E c \in Clients : ReadValid(c)
    \/ \E c \in Clients : ReadFail(c)
    \/ \E c \in Clients : ReadDefer(c)
    \/ \E c \in Clients : WriteDrain(c)

\* the ticker case stays ready until the select of the Room loop takes it
FairTicking == \A r \in RoomIds : WF_vars(RoomTick(r))

SpecTicking == Init /\ [][NextTicking]_vars /\ FairTicking

(* ------------------------------- claims -------------------------------- *)

\* the Room loop of r takes a payload off broadcast in this step
BroadcastTaken(r) == Len(broadcast'[r]) < Len(broadcast[r])

\* the Room loop of r takes a connection off unregister in this step
UnregisterTaken(r) == Len(unregister'[r]) < Len(unregister[r])

\* the presence ticker of the running Room r fires in this step
TickTaken(r) == loops[r] > 0 /\ nextTick'[r] # nextTick[r]

\* C1: when the Room loop processes one broadcast payload, every member
\* whose outbound queue has free space gets the payload appended and stays
\* a member, every member whose outbound queue is full has its queue closed
\* and is removed from clients in that same step, and the step is enabled
\* whenever a payload is queued, whatever the state of any member's queue
C1_FanOutStep ==
    \A r \in RoomIds :
        BroadcastTaken(r) =>
            \A c \in clients[r] :
                IF Len(send[c]) < clientSendBuf
                THEN /\ send'[c] = Append(send[c], Head(broadcast[r]))
                     /\ c \in clients'[r]
                     /\ sendClosed'[c] = sendClosed[c]
                ELSE /\ send'[c] = send[c]
                     /\ sendClosed'[c]
                     /\ c \notin clients'[r]

C1_NeverWaits ==
    \A r \in RoomIds :
        loops[r] > 0 /\ broadcast[r] # <<>> => ENABLED RoomBroadcast(r)

C1_NonBlockingFanOut == [][C1_FanOutStep]_vars /\ []C1_NeverWaits

\* C1: a saturated connection x was dropped by a chat fan-out, and another
\* member y of the same room holds a chat payload in its outbound queue
C1_Witness ==
    \E x, y \in Clients :
        /\ x # y
        /\ room[x] = room[y]
        /\ removedBy[x].how = "chat"
        /\ sendClosed[x]
        /\ y \in clients[room[y]]
        /\ send[y] # <<>>
        /\ send[y][Len(send[y])].type = "chat"

\* C2: every step that adds a member to or removes a member from Room.clients
\* leaves presenceDirty = true
C2_DirtyOnEveryChange ==
    [][\A r \in RoomIds :
           clients'[r] # clients[r] => presenceDirty'[r]]_vars

\* C3 (as stated): joins and leaves of one room that are less than one
\* debounce window apart are announced by one presence message, never by two
C3_OnePerDebounceWindow ==
    \A r \in RoomIds : splitGap[r] = NoGap \/ splitGap[r] >= presenceDebounce

\* C3: at a tick of the presence ticker, if joins or leaves were processed
\* since the previous tick, one presence message whose viewers is the size
\* of clients at that tick is pushed onto every member with free space and
\* presenceDirty is cleared; if none were, nothing is pushed
C3_TickStep ==
    \A r \in RoomIds :
        TickTaken(r) =>
            IF presenceDirty[r]
            THEN /\ \A c \in clients[r] :
                        Len(send[c]) < clientSendBuf =>
                            send'[c] =
                                Append(send[c],
                                       [type |-> "presence",
                                        room |-> roomName[r],
                                        viewers |-> Cardinality(clients[r])])
                 /\ ~presenceDirty'[r]
            ELSE send' = send

\* C3: between ticks no presence message is pushed
C3_OnlyAtTicks ==
    \A c \in Clients :
        Len(send'[c]) > Len(send[c]) =>
            \E r \in RoomIds : TickTaken(r) /\ presenceDirty[r]

\* C3: a running Room is dirty exactly when it has processed a join or a
\* leave since the previous tick
C3_DirtyIffPending ==
    \A r \in RoomIds :
        loops[r] > 0 => (presenceDirty[r] <=> pendFirst[r] # ZeroTime)

\* C3: all joins and leaves that the Room loop processes between two
\* consecutive ticks are announced by exactly one presence message, sent at
\* the closing tick with viewers = the size of clients at that tick
C3_OnePerTickInterval ==
    [][C3_TickStep /\ C3_OnlyAtTicks]_vars /\ []C3_DirtyIffPending

\* C3: two connections joined within one tick interval and the first
\* snapshot of the room told both of them viewers = 2
C3_Witness ==
    \E r \in RoomIds :
        /\ clients[r] = Clients
        /\ annEv[r] # ZeroTime
        /\ splitGap[r] = NoGap
        /\ \A c \in Clients :
               send[c] = <<[type |-> "presence", room |-> roomName[r],
                            viewers |-> NClients]>>

\* the chat payload p as it goes onto the wire
Wire(p) == [type |-> p.type, author |-> p.author, text |-> p.text,
            room |-> p.room]

\* the connection is joined and its pumps run
Connected(c) ==
    /\ epPc[c] = "started"
    /\ rdPc[c] = "read"
    /\ wrPc[c] = "select"
    /\ ~connClosed[c]
    /\ ~sendClosed[c]

\* C4: a valid chat frame {text: "Hello"} that a joined connection A sent
\* past the rate limit is pushed, as {chat, A's author, Hello, room name},
\* onto the outbound queue of every connection that had joined the room
\* when A sent it and is still connected when the Room loop processes it
C4_EndToEndDelivery ==
    [][\A r \in RoomIds :
           BroadcastTaken(r) =>
               LET p == Head(broadcast[r]) IN
               \A c \in p.audience :
                   Connected(c) /\ p.text = Hello =>
                       /\ Wire(p) = [type |-> "chat",
                                     author |-> author[p.from],
                                     text |-> Hello,
                                     room |-> roomName[r]]
                       /\ send'[c] = Append(send[c], p)]_vars

\* C5: at most one Room exists per name, every Room that exists has exactly
\* one control loop, and every GetRoom call that has returned holds the
\* one Room of its (defaulted) name
C5_GetRoomAtomic ==
    /\ \A r1, r2 \in 1..nRooms : roomName[r1] = roomName[r2] => r1 = r2
    /\ \A r \in RoomIds : loops[r] = IF r <= nRooms THEN 1 ELSE 0
    /\ \A k \in RoomKeys : rooms[k] # NoRoom => roomName[rooms[k]] = k
    /\ \A c \in Clients :
           room[c] # NoRoom =>
               /\ room[c] = rooms[GetRoomName(reqRoom[c])]
               /\ roomName[room[c]] = GetRoomName(reqRoom[c])

\* C5: two GetRoom calls with the same name have returned the same Room,
\* the only Room that was created
C5_Witness ==
    /\ NClients >= 2
    /\ room[1] # NoRoom
    /\ room[1] = room[2]
    /\ reqRoom[1] = reqRoom[2]
    /\ nRooms = 1

\* C6: when the Room loop takes unregister(c) off the queue for a c that is
\* not in clients, it leaves clients, every outbound queue and presenceDirty
\* unchanged and closes no queue (a second close would panic)
C6_UnregisterIdempotent ==
    [][\A r \in RoomIds :
           UnregisterTaken(r) /\ Head(unregister[r]) \notin clients[r] =>
               /\ clients' = clients
               /\ send' = send
               /\ sendClosed' = sendClosed
               /\ presenceDirty' = presenceDirty
               /\ panicked' = panicked]_vars

\* C6: the Room loop has processed the unregister of a connection it had
\* already dropped for a full queue, and nothing panicked
C6_Witness ==
    \E c \in Clients :
        /\ removedBy[c].late
        /\ removedBy[c].how \in {"chat", "presence"}
        /\ sendClosed[c]
        /\ ~panicked

\* a step of the entry point, of a readPump, of a writePump or of the Hub
OutsideRoomLoop ==
    \E c \in Clients :
        \/ Arrive(c)
        \/ GetRoomLock(c)
        \/ GetRoomLookup(c)
        \/ GetRoomCreate(c)
        \/ Register(c)
        \/ RegisterTimeout(c)
        \/ ReadChat(c)
        \/ ReadError(c)
        \/ WriteWake(c)
        \/ WritePingTick(c)

\* C7: every step of the entry point, of a readPump, of a writePump and of
\* the Hub leaves the clients of every Room unchanged
C7_MembersOwnedByRoomLoop == [][OutsideRoomLoop => clients' = clients]_vars

\* C7: a readPump has returned and queued its unregister while its
\* connection is still in clients: removing it is left to the Room loop
C7_Witness ==
    \E c \in Clients :
        /\ rdPc[c] = "done"
        /\ c \in clients[room[c]]
        /\ unregister[room[c]] = <<c>>

\* C8: a connection is in the clients of at most one Room, and a connection
\* the Room loop has removed from clients is in no Room's clients
C8_OneRoomNeverAgain ==
    \A c \in Clients :
        /\ \A r1, r2 \in RoomIds :
               c \in clients[r1] /\ c \in clients[r2] => r1 = r2
        /\ removedBy[c].how # "none" => \A r \in RoomIds : c \notin clients[r]

\* C8: one connection has been removed from its Room while another
\* connection is a member of a different Room
C8_Witness ==
    \E c, d \in Clients :
        /\ removedBy[c].how # "none"
        /\ room[d] # NoRoom
        /\ room[d] # room[c]
        /\ d \in clients[room[d]]

\* C9: the chat messages of one connection that were forwarded to the room
\* within any one second are at most maxMsgsPerSecond for the refill of
\* that second plus maxMsgsPerSecond for a full bucket at its start
C9_RollingWindowBound ==
    \A c \in Clients : Len(fwdTimes[c]) <= 2 * maxMsgsPerSecond

\* C9: a connection has had 2 * maxMsgsPerSecond messages forwarded within
\* one second
C9_Witness ==
    \E c \in Clients :
        /\ Len(fwdTimes[c]) = 2 * maxMsgsPerSecond
        /\ fwdTimes[c][1] >= now - GrainsPerSecond

\* C10 (as stated): of 5 valid frames sent within 200 ms on a full bucket
\* exactly the first 3 are forwarded to the room and the last 2 are dropped
C10_ExactlyThreeForwarded ==
    \A c \in Clients :
        Len(burst[c].out) = BurstFrames =>
            burst[c].out = <<"fwd", "fwd", "fwd", "rate", "rate">>

\* C10: of the valid frames a connection sends within 200 ms of a frame
\* that met a full bucket, exactly the first maxMsgsPerSecond pass the rate
\* limiter, each to be forwarded if broadcast has a free slot and dropped
\* if it has not, and every later one is dropped by the rate limiter
C10_FirstThreePassLimiter ==
    \A c \in Clients :
        \A i \in 1..Len(burst[c].out) :
            IF i <= maxMsgsPerSecond
            THEN burst[c].out[i] \in {"fwd", "full"}
            ELSE burst[c].out[i] = "rate"

\* C10: a burst of 5 valid frames on a full bucket has had its first 3
\* frames forwarded and its last 2 dropped by the rate limiter
C10_Witness ==
    \E c \in Clients :
        burst[c].out = <<"fwd", "fwd", "fwd", "rate", "rate">>

\* readPump of c reads a frame in this step
FrameRead(c) == nFrames'[c] # nFrames[c]

\* the payload the step put on the broadcast queue of c's room
Pushed(c) == broadcast'[room[c]][Len(broadcast'[room[c]])]

\* C11: every chat payload on a broadcast queue has a text that is
\* non-empty, neither starts nor ends with whitespace and has at most
\* maxTextRunes code points
C11_QueuedTextClean ==
    \A r \in RoomIds :
        \A i \in 1..Len(broadcast[r]) :
            LET t == broadcast[r][i].text IN
            /\ t # <<>>
            /\ ~IsSpace(t[1])
            /\ ~IsSpace(t[Len(t)])
            /\ Len(t) <= maxTextRunes

\* C11: a frame is forwarded with its text trimmed, and a frame whose
\* trimmed text is empty or longer than maxTextRunes is not forwarded
C11_ForwardStep ==
    \A c \in Clients :
        \A f \in Frames :
            FrameRead(c) /\ ReadFrame(c, f) =>
                LET t == TrimSpace(f.text) IN
                IF t = <<>> \/ Len(t) > maxTextRunes
                THEN broadcast' = broadcast
                ELSE broadcast' # broadcast => Pushed(c).text = t

\* C11: forwarded text is the trimmed input, non-empty and at most 50 code
\* points; empty or over-long text is rejected, never truncated
C11_SanitizedText == []C11_QueuedTextClean /\ [][C11_ForwardStep]_vars

\* C11: a frame whose text had leading and trailing whitespace is on the
\* broadcast queue with the trimmed text
C11_Witness ==
    \E r \in RoomIds :
        /\ broadcast[r] # <<>>
        /\ broadcast[r][1].text = TrimSpace(PaddedHi)
        /\ TrimSpace(PaddedHi) # PaddedHi

\* C12: the message forwarded for an accepted frame has type chat whatever
\* type was sent, the frame's author if non-empty else the connection's
\* author, and the frame's room if non-empty else the connection's room name
C12_DefaultsFilled ==
    [][\A c \in Clients :
           \A f \in Frames :
               FrameRead(c) /\ broadcast' # broadcast /\ ReadFrame(c, f) =>
                   /\ Pushed(c).type = "chat"
                   /\ Pushed(c).author =
                         (IF f.author # "" THEN f.author ELSE author[c])
                   /\ Pushed(c).room =
                         (IF f.room # "" THEN f.room
                          ELSE roomName[room[c]])]_vars

\* C12: one forwarded message carries the connection's author and room
\* name, another the author and room its frame named, both with type chat
C12_Witness ==
    \E c, d \in Clients :
        /\ send[c] # <<>>
        /\ send[c][1].type = "chat"
        /\ Wire(send[c][1]) = [type |-> "chat", author |-> author[c],
                               text |-> Hello, room |-> roomName[room[c]]]
        /\ room[d] # NoRoom
        /\ broadcast[room[d]] # <<>>
        /\ Wire(broadcast[room[d]][1]) =
              [type |-> "chat", author |-> SpoofFrame.author,
               text |-> TrimSpace(SpoofFrame.text), room |-> SpoofFrame.room]

\* the rate limiter, the JSON decoder or the sanitizer rejects frame f of c
Rejected(c, f) ==
    \/ ~allowMessage(tokens[c], lastRefill[c], now).ok
    \/ ~f.json
    \/ ~sanitizeText(f.text).ok

\* C13: reading a frame that is rate-limited, malformed or fails
\* sanitization pushes nothing onto any broadcast or outbound queue, leaves
\* the membership, the transport and the queues of the sender as they are,
\* and leaves readPump reading
C13_SilentDiscard ==
    [][\A c \in Clients :
           \A f \in RateFrames :
               FrameRead(c) /\ Rejected(c, f) /\ ReadFrameTimed(c, f) =>
                   /\ broadcast' = broadcast
                   /\ send' = send
                   /\ unregister' = unregister
                   /\ clients' = clients
                   /\ sendClosed' = sendClosed
                   /\ connClosed' = connClosed
                   /\ rdPc'[c] = "read"]_vars

\* C13: a frame was dropped by the rate limiter and its sender is still a
\* member, with its transport open and its readPump reading
C13_Witness ==
    \E c \in Clients :
        /\ Len(burst[c].out) > maxMsgsPerSecond
        /\ burst[c].out[Len(burst[c].out)] = "rate"
        /\ c \in clients[room[c]]
        /\ ~connClosed[c]
        /\ ~sendClosed[c]
        /\ rdPc[c] = "read"

\* readPump of c has an acceptable frame to forward and the broadcast queue
\* of its room has no free slot
Overloaded(c) ==
    /\ room[c] # NoRoom
    /\ Len(broadcast[room[c]]) >= roomBroadcastBuf
    /\ allowMessage(tokens[c], lastRefill[c], now).ok

\* C14: forwarding into a full broadcast queue drops the message; built
\* with the flag false the connection stays as it is and goes on reading,
\* built with the flag true readPump returns, queues its unregister if the
\* unregister queue has a free slot, and closes the transport
C14_OverloadStep ==
    \A c \in Clients :
        FrameRead(c) /\ Overloaded(c) /\ ReadFrame(c, ValidFrame) =>
            /\ broadcast' = broadcast
            /\ clients' = clients
            /\ IF dropClose
               THEN /\ rdPc'[c] = "done"
                    /\ connClosed'[c]
                    /\ unregister'[room[c]] =
                          IF Len(unregister[room[c]]) < roomUnregisterBuf
                          THEN Append(unregister[room[c]], c)
                          ELSE unregister[room[c]]
               ELSE /\ rdPc'[c] = "read"
                    /\ connClosed' = connClosed
                    /\ unregister' = unregister

\* C14: a reading readPump can take its next frame whatever the state of
\* the broadcast queue
C14_NeverBlocks ==
    \A c \in Clients :
        rdPc[c] = "read" /\ ~connClosed[c] /\ nFrames[c] < MaxFrames =>
            ENABLED ReadValid(c)

\* C14: readPump never blocks on a full broadcast queue: the message is
\* dropped, and the connection stays (flag false) or is torn down (flag true)
C14_OverloadPolicy == [][C14_OverloadStep]_vars /\ []C14_NeverBlocks

\* C14: built with the flag true, a readPump met a full broadcast queue and
\* returned: its transport is closed and its unregister was queued
C14_Witness ==
    \E c \in Clients :
        /\ dropClose
        /\ rdPc[c] = "done"
        /\ connClosed[c]
        /\ nFrames[c] > 0
        /\ broadcast[room[c]] # <<>>
        /\ broadcast[room[c]][1].from # c
        /\ unregister[room[c]] = <<c>>

\* connection c is an item of the queue q
InQueue(q, c) == \E i \in 1..Len(q) : q[i] = c

\* C16: a connection whose join timed out has its transport closed, no
\* pump, no register request queued and no membership; a connection has
\* pumps only once its register request was accepted
C16_AbortedOrStarted ==
    \A c \in Clients :
        /\ epPc[c] = "aborted" =>
               /\ connClosed[c]
               /\ rdPc[c] = "off"
               /\ wrPc[c] = "off"
               /\ \A r \in RoomIds :
                      c \notin clients[r] /\ ~InQueue(register[r], c)
        /\ (rdPc[c] # "off" \/ wrPc[c] # "off") => epPc[c] = "started"
        /\ epPc[c] = "started" => rdPc[c] # "off" /\ wrPc[c] # "off"

\* C16: both pumps are started in the step that puts the register request
\* on the queue, and in no other step
C16_StartStep ==
    \A c \in Clients :
        /\ (rdPc[c] = "off" /\ rdPc'[c] # "off")
             \/ (wrPc[c] = "off" /\ wrPc'[c] # "off") =>
               /\ epPc[c] = "register"
               /\ register'[room[c]] = Append(register[room[c]], c)
               /\ rdPc[c] = "off" /\ rdPc'[c] = "read"
               /\ wrPc[c] = "off" /\ wrPc'[c] = "select"
        /\ epPc[c] \in {"started", "aborted"} => epPc'[c] = epPc[c]
        /\ epPc[c] # "register" =>
               \A r \in RoomIds :
                   InQueue(register'[r], c) => InQueue(register[r], c)

\* C16: a join that times out closes the transport and starts nothing; a
\* join that is accepted starts both pumps exactly once
C16_JoinFailure == []C16_AbortedOrStarted /\ [][C16_StartStep]_vars

\* C16: the register queue of the room stayed full and the join of a
\* connection timed out
C16_Witness ==
    \E c \in Clients :
        /\ epPc[c] = "aborted"
        /\ connClosed[c]
        /\ Len(register[room[c]]) >= roomRegisterBuf

\* the chat payloads connection c has been sent, in the order of arrival:
\* those writePump wrote, then those still on the outbound queue
Received(c) ==
    SelectSeq(wire[c] \o send[c], LAMBDA p : p.type = "chat")

\* the items of the sequence q that one sender forwarded are in the order
\* in which the sender forwarded them
SenderOrder(q) ==
    \A i, j \in 1..Len(q) :
        i < j /\ q[i].from = q[j].from => q[i].n < q[j].n

\* C20: on every broadcast queue and in what every connection receives,
\* the payloads of one sender are in the order the sender forwarded them,
\* and two payloads that two connections both receive are in the same
\* order for both
C20_SameOrder ==
    /\ \A r \in RoomIds : SenderOrder(broadcast[r])
    /\ \A c \in Clients : SenderOrder(Received(c))
    /\ \A c, d \in Clients :
           \A i, j \in 1..Len(Received(c)) :
               \A k, l \in 1..Len(Received(d)) :
                   /\ i < j
                   /\ Received(c)[i] = Received(d)[k]
                   /\ Received(c)[j] = Received(d)[l]
                   => k < l

\* C20: the Room loop takes the payloads off the broadcast queue one at a
\* time, the oldest first
C20_FifoStep ==
    \A r \in RoomIds :
        broadcast'[r] # broadcast[r] =>
            \/ /\ broadcast[r] # <<>>
               /\ broadcast'[r] = Tail(broadcast[r])
            \/ /\ Len(broadcast'[r]) = Len(broadcast[r]) + 1
               /\ SubSeq(broadcast'[r], 1, Len(broadcast[r])) = broadcast[r]

C15_NeverBlocked ==
    /\ \A c \in Clients : rdPc[c] = "defer" => ENABLED ReadDefer(c)
    /\ \A r \in RoomIds :
           loops[r] > 0 /\ unregister[r] # <<>> => ENABLED RoomUnregister(r)

\* C15: the deferred function closes the transport and ends readPump; on
\* a full unregister queue it gives the unregister up
C15_DeferStep ==
    \A c \in Clients :
        rdPc[c] = "defer" /\ rdPc'[c] # "defer" =>
            /\ rdPc'[c] = "done"
            /\ connClosed'[c]
            /\ unregister'[room[c]] =
                  IF Len(unregister[room[c]]) < roomUnregisterBuf
                  THEN Append(unregister[room[c]], c)
                  ELSE unregister[room[c]]

\* C15: after a read error every readPump terminates and closes its
\* transport, the unregister queue being full or not, and never blocks
\* the Room loop
C15_TeardownTerminates ==
    /\ []C15_NeverBlocked
    /\ [][C15_DeferStep]_vars
    /\ \A c \in Clients :
           (rdPc[c] = "defer") ~> (rdPc[c] = "done" /\ connClosed[c])

\* C15: all connections failed at once; the unregister queue was full for
\* one of them, whose readPump terminated all the same and which is still
\* in clients
C15_Witness ==
    \E c \in Clients :
        /\ \A d \in Clients : rdPc[d] = "done" /\ connClosed[d]
        /\ c \in clients[room[c]]
        /\ Len(unregister[room[c]]) >= roomUnregisterBuf
        /\ ~InQueue(unregister[room[c]], c)

\* the writePump of c returns in this step
WriterExits(c) == wrPc[c] = "select" /\ wrPc'[c] = "done"

\* C17 as stated: once the outbound queue of a connection is closed, its
\* outbound loop ends by writing every queued message in order and then
\* the close frame
C17_AlwaysCloseFrame ==
    [][\A c \in Clients :
           sendClosed[c] /\ WriterExits(c) =>
               wire'[c] = wire[c] \o send[c] \o <<CloseFrame>>]_vars

\* the return of a writePump whose queue is closed: the transport is
\* closed; either the queued messages and then the close frame were
\* written, or a write failed, the pump stopped there and wrote no close
\* frame; on a transport that was already closed nothing is written
C17_ExitStep ==
    \A c \in Clients :
        sendClosed[c] /\ WriterExits(c) =>
            /\ connClosed'[c]
            /\ \/ wire'[c] = wire[c] \o send[c] \o <<CloseFrame>>
               \/ \E k \in 0..Len(send[c]) :
                      /\ send[c] # <<>> => k < Len(send[c])
                      /\ wire'[c] = wire[c] \o SubSeq(send[c], 1, k)
            /\ connClosed[c] => wire'[c] = wire[c]

\* on an open transport the writePump of a closed queue can write the
\* queued messages and the close frame
C17_CanFlush ==
    \A c \in Clients :
        sendClosed[c] /\ wrPc[c] = "select" /\ ~connClosed[c] =>
            ENABLED (/\ WriteLive(c)
                     /\ wire'[c] = wire[c] \o send[c] \o <<CloseFrame>>)

\* nothing is written once the writePump has returned
C17_DoneStep ==
    \A c \in Clients : wrPc[c] = "done" => wire'[c] = wire[c]

\* nothing follows a close frame on the transport
C17_CloseFrameLast ==
    \A c \in Clients :
        \A i \in 1..Len(wire[c]) :
            wire[c][i].type = "close" => i = Len(wire[c])

\* C17: after the Room closes a connection's outbound queue, its outbound
\* loop eventually returns and closes the transport; when the transport is
\* open and no write fails it first writes the queued messages in order
\* and then a close frame, when a write fails it stops there without a
\* close frame; no message is written after the close frame
C17_AfterClosure ==
    /\ []C17_CloseFrameLast
    /\ []C17_CanFlush
    /\ [][C17_ExitStep]_vars
    /\ [][C17_DoneStep]_vars
    /\ \A c \in Clients :
           sendClosed[c] ~> (wrPc[c] = "done" /\ connClosed[c])

\* C17 witness: a connection dropped by a fan-out with its queue full has
\* written the queued chat message and then the close frame, and returned
C17_Witness ==
    \E c \in Clients :
        /\ removedBy[c].how = "chat"
        /\ sendClosed[c]
        /\ wrPc[c] = "done"
        /\ connClosed[c]
        /\ Len(wire[c]) >= 2
        /\ wire[c][Len(wire[c])] = CloseFrame
        /\ wire[c][Len(wire[c]) - 1].type = "chat"

\* one of the two loops of c leaves its read or select in this step
PumpEnds(c) ==
    \/ rdPc[c] = "read" /\ rdPc'[c] = "defer"
    \/ rdPc[c] = "defer" /\ rdPc'[c] = "done"
    \/ WriterExits(c)

\* C18: a loop of c that ends changes nothing of the Hub, of the Room
\* loops or of another connection; at most it queues the unregister of c
C18_PumpStep ==
    \A c \in Clients :
        PumpEnds(c) =>
            /\ UNCHANGED <<hubVars, roomName, clients, register, broadcast,
                           presenceDirty, loops, nextTick, panicked>>
            /\ \A r \in RoomIds :
                   \/ unregister'[r] = unregister[r]
                   \/ /\ r = room[c]
                      /\ unregister'[r] = Append(unregister[r], c)
            /\ \A d \in Clients \ {c} :
                   /\ send'[d] = send[d]
                   /\ sendClosed'[d] = sendClosed[d]
                   /\ connClosed'[d] = connClosed[d]
                   /\ rdPc'[d] = rdPc[d]
                   /\ wrPc'[d] = wrPc[d]

\* C18: the Room loop that serves the unregister of c removes c and
\* nothing else, and keeps running
C18_RemovalStep ==
    \A r \in RoomIds :
        UnregisterTaken(r) =>
            LET c == Head(unregister[r])
            IN /\ clients'[r] = clients[r] \ {c}
               /\ UNCHANGED <<hubVars, roomName, register, broadcast, loops,
                              panicked>>
               /\ \A d \in Clients \ {c} :
                      /\ send'[d] = send[d]
                      /\ sendClosed'[d] = sendClosed[d]
                      /\ connClosed'[d] = connClosed[d]

\* no Room loop has panicked or stopped
C18_LoopsAlive ==
    /\ ~panicked
    /\ \A k \in RoomKeys : rooms[k] # NoRoom => loops[rooms[k]] > 0

\* C18: when one of the two loops of a connection terminates, the other
\* eventually terminates too, and the Hub and the Room loops keep running,
\* their state changed only by the removal of that connection
C18_SiblingTerminates ==
    /\ []C18_LoopsAlive
    /\ [][C18_PumpStep]_vars
    /\ [][C18_RemovalStep]_vars
    /\ \A c \in Clients :
           /\ (rdPc[c] = "done") ~> (wrPc[c] = "done")
           /\ (wrPc[c] = "done") ~> (rdPc[c] = "done")

\* C18 witness: both loops of a failed connection have terminated although
\* its outbound queue is not closed, while another member of the room
\* is still served
C18_Witness ==
    \E c \in Clients :
        \E d \in Clients \ {c} :
            /\ rdPc[c] = "done"
            /\ wrPc[c] = "done"
            /\ ~sendClosed[c]
            /\ loops[room[c]] > 0
            /\ ~panicked
            /\ d \in clients[room[c]]
            /\ rdPc[d] = "read"
            /\ wrPc[d] = "select"

\* a payload that c forwarded is on the queue q
FromInQueue(q, c) == \E i \in 1..Len(q) : q[i].from = c

\* C19: no Room loop has panicked or returned, and a running Room loop
\* with a request on its register, unregister or broadcast queue can take
\* it, whatever the state of the members' queues, transports and pumps
C19_LoopReady ==
    /\ ~panicked
    /\ \A k \in RoomKeys : rooms[k] # NoRoom => loops[rooms[k]] = 1
    /\ \A r \in RoomIds :
           loops[r] > 0 =>
               /\ register[r] # <<>> => ENABLED RoomRegister(r)
               /\ unregister[r] # <<>> => ENABLED RoomUnregister(r)
               /\ broadcast[r] # <<>> => ENABLED RoomBroadcast(r)

\* C19: a Room loop that runs keeps running
C19_LoopStep ==
    \A r \in RoomIds : loops[r] > 0 => loops'[r] = loops[r]

\* C19: the Room loop has no terminal or blocked state, whatever members
\* have failed, are slow or were dropped, and every request placed on its
\* register, unregister or broadcast queue is eventually taken off it
C19_NoTerminalState ==
    /\ []C19_LoopReady
    /\ [][C19_LoopStep]_vars
    /\ \A r \in RoomIds :
           \A c \in Clients :
               /\ InQueue(register[r], c) ~> ~InQueue(register[r], c)
               /\ InQueue(unregister[r], c) ~> ~InQueue(unregister[r], c)
               /\ FromInQueue(broadcast[r], c)
                      ~> ~FromInQueue(broadcast[r], c)

\* C19 witness: one member was dropped by a fan-out that found its queue
\* full, another failed and was removed by its unregister request, and the
\* Room loop runs on with its queues served
C19_Witness ==
    \E r \in RoomIds :
        \E c, d \in Clients :
            /\ room[c] = r
            /\ room[d] = r
            /\ removedBy[c].how = "chat"
            /\ removedBy[d].how = "unregister"
            /\ rdPc[d] = "done"
            /\ register[r] = <<>>
            /\ unregister[r] = <<>>
            /\ broadcast[r] = <<>>
            /\ loops[r] > 0
            /\ ~panicked

\* the application messages written on the transport of c
AppWritten(c) == SelectSeq(wire[c], LAMBDA p : p.type # "close")

\* p is an initial segment of q
IsPrefix(p, q) == Len(p) <= Len(q) /\ p = SubSeq(q, 1, Len(p))

\* C21: what writePump has written on a transport is an initial segment
\* of what was pushed onto the outbound queue, the queue holds the latest
\* pushes, and while no write has failed the written messages followed by
\* the queued ones are exactly the pushed ones
C21_EnqueueOrder ==
    \A c \in Clients :
        /\ IsPrefix(AppWritten(c), pushLog[c])
        /\ Len(send[c]) <= Len(pushLog[c])
        /\ send[c] = SubSeq(pushLog[c], Len(pushLog[c]) - Len(send[c]) + 1,
                            Len(pushLog[c]))
        /\ wrPc[c] = "select" => AppWritten(c) \o send[c] = pushLog[c]

\* C21 witness: a connection was written three messages or more, a chat
\* payload and a presence snapshot among them, all that was pushed
C21_Witness ==
    \E c \in Clients :
        /\ Len(AppWritten(c)) >= 3
        /\ AppWritten(c) = pushLog[c]
        /\ \E i \in 1..Len(wire[c]) : wire[c][i].type = "chat"
        /\ \E i \in 1..Len(wire[c]) : wire[c][i].type = "presence"

\* C22: every presence message on an outbound queue carries the name of
\* the Room of the connection and a count of at least one viewer
C22_QueuedPresence ==
    \A c \in Clients :
        \A i \in 1..Len(send[c]) :
            send[c][i].type = "presence" =>
                /\ room[c] # NoRoom
                /\ send[c][i].room = roomName[room[c]]
                /\ send[c][i].viewers \in 1..NClients

\* C22: a tick that finds presenceDirty set pushes, onto every member with
\* free space, the snapshot {presence, name, size of clients before the
\* fan-out}; a tick that finds it clear changes neither clients nor any
\* outbound queue
C22_TickStep ==
    \A r \in RoomIds :
        TickTaken(r) =>
            IF presenceDirty[r]
            THEN \A c \in clients[r] :
                     IF Len(send[c]) < sendCap
                     THEN /\ send'[c] =
                               Append(send[c],
                                      [type |-> "presence",
                                       room |-> roomName[r],
                                       viewers |-> Cardinality(clients[r])])
                          /\ c \in clients'[r]
                     ELSE /\ send'[c] = send[c]
                          /\ c \notin clients'[r]
            ELSE /\ clients' = clients
                 /\ send' = send
                 /\ sendClosed' = sendClosed
                 /\ ~presenceDirty'[r]

\* C22: a presence message is pushed only by the tick of the Room of the
\* connection, with presenceDirty set
C22_PushStep ==
    \A c \in Clients :
        /\ Len(send'[c]) > Len(send[c])
        /\ send'[c][Len(send'[c])].type = "presence"
        => /\ room[c] # NoRoom
           /\ TickTaken(room[c])
           /\ presenceDirty[room[c]]
           /\ c \in clients[room[c]]

\* C22: every presence message a Room emits has type presence, the name of
\* the Room and viewers = the size of clients when the snapshot is
\* computed; a tick that finds presenceDirty clear emits nothing and
\* changes neither clients nor any outbound queue
C22_PresenceSnapshot ==
    /\ []C22_QueuedPresence
    /\ [][C22_TickStep]_vars
    /\ [][C22_PushStep]_vars

\* C22 witness: a snapshot computed with two members dropped one of them,
\* whose queue was full, and told the other viewers = 2
C22_Witness ==
    \E r \in RoomIds :
        \E c, d \in Clients :
            /\ removedBy[c].how = "presence"
            /\ clients[r] = {d}
            /\ send[d] # <<>>
            /\ send[d][Len(send[d])] =
                  [type |-> "presence", room |-> roomName[r], viewers |-> 2]
            /\ ~presenceDirty[r]

\* the GetRoom call of connection c has returned
GotRoom(c) == room[c] # NoRoom

\* C23: no Room is registered under or named by the empty string, and
\* every GetRoom call made with the empty name or with the default name
\* has returned the one Room registered under the default name
C23_DefaultRoom ==
    /\ rooms[""] = NoRoom
    /\ \A r \in 1..nRooms : roomName[r] # ""
    /\ \A c \in Clients :
           GotRoom(c) /\ reqRoom[c] \in {"", DefaultRoom} =>
               /\ room[c] = rooms[DefaultRoom]
               /\ roomName[room[c]] = DefaultRoom
    /\ \A c, d \in Clients :
           /\ GotRoom(c) /\ reqRoom[c] = ""
           /\ GotRoom(d) /\ reqRoom[d] = DefaultRoom
           => room[c] = room[d]

\* C23 witness: the first connection asked for the default room by name,
\* the second asked for no room, and both hold the only Room there is
C23_Witness ==
    /\ reqRoom[1] = DefaultRoom
    /\ reqRoom[2] = ""
    /\ GotRoom(1)
    /\ GotRoom(2)
    /\ room[1] = room[2]
    /\ nRooms = 1

\* C23 witness: the same with the GetRoom call of the empty name first
C23_WitnessEmptyFirst ==
    /\ reqRoom[1] = ""
    /\ reqRoom[2] = DefaultRoom
    /\ GotRoom(1)
    /\ GotRoom(2)
    /\ room[1] = room[2]
    /\ nRooms = 1

\* the Room loop has taken an unregister request of c off its queue
UnregisterServed(c) == removedBy[c].how = "unregister" \/ removedBy[c].late

\* C24: the Room loop takes the unregister request of a connection only
\* after it has taken the register request of that connection, and a
\* connection whose unregister request has been taken is not in clients
C24_RegisterBeforeUnregister ==
    /\ [][\A r \in RoomIds :
              UnregisterTaken(r) =>
                  ~InQueue(register[r], Head(unregister[r]))]_vars
    /\ [](\A c \in Clients :
              UnregisterServed(c) => c \notin clients[room[c]])

\* c is in the clients map of its Room
Member(c) == room[c] # NoRoom /\ c \in clients[room[c]]

\* C25: every connection whose readPump has returned and whose transport
\* is closed is eventually absent from the clients of its Room
C25_NoGhostMembers ==
    \A c \in Clients :
        (rdPc[c] = "done" /\ connClosed[c]) ~> ~Member(c)

\* C26: a connection whose outbound queue is closed is in no clients map,
\* and no send on or close of a closed channel has happened
C26_ClosedNotMember ==
    /\ ~panicked
    /\ \A c \in Clients :
           sendClosed[c] => \A r \in RoomIds : c \notin clients[r]

\* C26: nothing is pushed onto a closed queue, and a closed queue stays
\* closed
C26_ClosedStep ==
    \A c \in Clients :
        sendClosed[c] => sendClosed'[c] /\ Len(send'[c]) <= Len(send[c])

\* C26: in every reachable state a connection whose outbound queue has
\* been closed is not in clients, so the Room loop never pushes onto a
\* closed queue and never closes a queue twice
C26_NoClosedMember ==
    /\ []C26_ClosedNotMember
    /\ [][C26_ClosedStep]_vars

\* C26 witness: one connection was dropped by a presence fan-out, another
\* by a chat fan-out, and the Room loop then took the unregister request
\* of one of them without closing its queue again
C26_Witness ==
    \E c, d \in Clients :
        /\ removedBy[c].how = "presence"
        /\ removedBy[d].how = "chat"
        /\ removedBy[c].late \/ removedBy[d].late
        /\ sendClosed[c]
        /\ sendClosed[d]
        /\ ~panicked

\* C27: presenceDirty is cleared only by the ticker case of the Room,
\* which pushes the snapshot onto every member with free space
C27_ClearStep ==
    \A r \in RoomIds :
        presenceDirty[r] /\ ~presenceDirty'[r] =>
            /\ loops[r] > 0
            /\ UNCHANGED <<register, unregister, broadcast>>
            /\ \A c \in clients[r] :
                   Len(send[c]) < sendCap =>
                       send'[c] = Append(send[c], PresenceMsg(r))

\* C27: whenever presenceDirty is set, the ticker case eventually sends a
\* snapshot and clears it, whatever registers, unregisters and chat
\* broadcasts are processed in between
C27_DirtyIsAnnounced ==
    /\ [][C27_ClearStep]_vars
    /\ \A r \in RoomIds : presenceDirty[r] ~> ~presenceDirty[r]

\* C27 witness: a connection has sent its chat frame, the Room has fanned
\* it out and has then told the connection the snapshot of two viewers,
\* and presenceDirty is clear
C27_Witness ==
    \E c \in Clients :
        /\ Member(c)
        /\ nFrames[c] > 0
        /\ broadcast[room[c]] = <<>>
        /\ ~presenceDirty[room[c]]
        /\ send[c] = <<[type |-> "presence", room |-> roomName[room[c]],
                        viewers |-> 2]>>

\* C28: every payload on a broadcast queue has type chat, and every
\* message on an outbound queue has type chat or presence
C28_QueuedTypes ==
    /\ \A r \in RoomIds :
           \A i \in 1..Len(broadcast[r]) : broadcast[r][i].type = "chat"
    /\ \A c \in Clients :
           \A i \in 1..Len(send[c]) : send[c][i].type \in {"chat", "presence"}

\* C28: a message of type presence is pushed onto an outbound queue only
\* by the step of the Room loop that clears presenceDirty, which takes
\* nothing off the broadcast queue, and it is the snapshot of that Room
C28_PresenceStep ==
    \A c \in Clients :
        /\ Len(send'[c]) > Len(send[c])
        /\ send'[c][Len(send'[c])].type = "presence"
        => /\ Member(c)
           /\ presenceDirty[room[c]]
           /\ ~presenceDirty'[room[c]]
           /\ broadcast' = broadcast
           /\ send'[c] = Append(send[c], PresenceMsg(room[c]))

\* C28: every payload that a readPump pushes onto a broadcast queue has
\* type chat, whatever type the frame carried, so every message of type
\* presence on an outbound queue was produced by the presence tick
C28_NoForgedPresence ==
    /\ []C28_QueuedTypes
    /\ [][C28_PresenceStep]_vars

\* C28 witness: the frame that a client sent with type presence is on an
\* outbound queue with type chat
C28_Witness ==
    \E c \in Clients :
        /\ send[c] # <<>>
        /\ send[c][1].type = "chat"
        /\ send[c][1].author = SpoofFrame.author

\* C29: a connection is a member of, and has requests queued in, the Room
\* it was bound to at join only, and every chat payload on a broadcast
\* queue or an outbound queue was forwarded by a connection bound to the
\* Room of that queue
C29_BoundRoomOnly ==
    /\ \A r \in RoomIds :
           /\ \A c \in clients[r] : room[c] = r
           /\ \A i \in 1..Len(register[r]) : room[register[r][i]] = r
           /\ \A i \in 1..Len(broadcast[r]) : room[broadcast[r][i].from] = r
    /\ \A d \in Clients :
           \A i \in 1..Len(send[d]) :
               send[d][i].type = "chat" => room[send[d][i].from] = room[d]

\* C29: the fan-out of a payload pushes onto outbound queues of members
\* of the Room of the connection that forwarded it, and onto no other
C29_FanOutStep ==
    \A r \in RoomIds :
        BroadcastTaken(r) =>
            \A d \in Clients :
                send'[d] # send[d] =>
                    /\ d \in clients[r]
                    /\ room[d] = room[Head(broadcast[r]).from]

\* C29: a chat message forwarded by a connection is only ever pushed onto
\* outbound queues of members of the Room the connection was bound to at
\* join, whatever the room field of the payload says
C29_RoomIsolation ==
    /\ []C29_BoundRoomOnly
    /\ [][C29_FanOutStep]_vars

\* C29 witness: a payload whose room field names another Room, which has
\* a member, was fanned out to the sender and not to that member
C29_Witness ==
    \E c, d \in Clients :
        /\ Member(c)
        /\ Member(d)
        /\ room[c] # room[d]
        /\ send[c] # <<>>
        /\ send[c][1].from = c
        /\ send[c][1].room = roomName[room[d]]
        /\ send[d] = <<>>
        /\ broadcast[room[c]] = <<>>
        /\ broadcast[room[d]] = <<>>
        /\ nFrames[d] = 0

\* C30: the read of a frame of more than maxMsgSize bytes pushes nothing
\* onto a broadcast queue and ends the read loop
C30_OversizeStep ==
    \A c \in Clients :
        \A size \in FrameSizes :
            size > maxMsgSize /\ ReadSized(c, size) =>
                /\ broadcast' = broadcast
                /\ nFrames' = nFrames
                /\ rdPc'[c] = "defer"

\* C30: the readPump that returns has asked for its unregistration, unless
\* the unregister queue was full, and has closed the transport
C30_ReturnStep ==
    \A c \in Clients :
        rdPc[c] = "defer" /\ rdPc'[c] = "done" =>
            /\ connClosed'[c]
            /\ \/ InQueue(unregister'[room[c]], c)
               \/ Len(unregister[room[c]]) = roomUnregisterBuf

\* C30: a connection whose readPump has left its loop forwards nothing
C30_NoForwardAfter ==
    \A c \in Clients :
        rdPc[c] \in {"defer", "done"} =>
            /\ nFrames'[c] = nFrames[c]
            /\ rdPc'[c] # "read"

\* C30: a frame larger than maxMsgSize is never forwarded to the Room: the
\* read fails, the readPump leaves its loop, asks for its unregistration
\* and closes the transport
C30_OversizedFrame ==
    /\ [][C30_OversizeStep]_vars
    /\ [][C30_ReturnStep]_vars
    /\ [][C30_NoForwardAfter]_vars
    /\ \A c \in Clients :
           (rdPc[c] = "defer") ~> (rdPc[c] = "done" /\ connClosed[c])

\* C30 witness: a connection whose first frame was over the limit has
\* forwarded nothing, was unregistered and has its transport closed,
\* while the frame of another connection, at the limit, was forwarded
C30_Witness ==
    \E c, d \in Clients :
        /\ rdPc[c] = "done"
        /\ connClosed[c]
        /\ nFrames[c] = 0
        /\ removedBy[c].how = "unregister"
        /\ nFrames[d] = 1
        /\ rdPc[d] = "read"

(* ------------------------ the drain cap (C31) -------------------------- *)

\* a build whose outbound queues hold more than one wake-up can write
BatchBuf == drainBatch + 3

\* the k chat messages connection 1 forwarded as its first k frames, as the
\* Room fanned them out to it
Backlog(k) ==
    [i \in 1..k |->
        [type |-> "chat", author |-> "A", text |-> Hello,
         room |-> DefaultRoom, from |-> 1, n |-> i, audience |-> {1}]]

\* connection 1 is alone in the default room; its writePump has not run
\* since the Room fanned out the k frames it forwarded
InitBatch ==
    /\ mu = NoClient
    /\ dropClose = broadcastDropClose
    /\ sendCap = BatchBuf
    /\ rooms = [k \in RoomKeys |-> IF k = DefaultRoom THEN 1 ELSE NoRoom]
    /\ nRooms = 1
    /\ roomName = [r \in RoomIds |-> IF r = 1 THEN DefaultRoom ELSE ""]
    /\ clients = [r \in RoomIds |-> IF r = 1 THEN {1} ELSE {}]
    /\ register = [r \in RoomIds |-> <<>>]
    /\ unregister = [r \in RoomIds |-> <<>>]
    /\ broadcast = [r \in RoomIds |-> <<>>]
    /\ presenceDirty = [r \in RoomIds |-> FALSE]
    /\ loops = [r \in RoomIds |-> IF r = 1 THEN 1 ELSE 0]
    /\ nextTick = [r \in RoomIds |-> 0]
    /\ epPc = [c \in Clients |-> IF c = 1 THEN "started" ELSE "idle"]
    /\ reqRoom = [c \in Clients |-> ""]
    /\ author = [c \in Clients |-> IF c = 1 THEN "A" ELSE ""]
    /\ room = [c \in Clients |-> IF c = 1 THEN 1 ELSE NoRoom]
    /\ \E k \in 0..BatchBuf :
           /\ send = [c \in Clients |-> IF c = 1 THEN Backlog(k) ELSE <<>>]
           /\ nFrames = [c \in Clients |-> IF c = 1 THEN k ELSE 0]
    /\ sendClosed = [c \in Clients |-> FALSE]
    /\ connClosed = [c \in Clients |-> FALSE]
    /\ tokens = [c \in Clients |-> IF c = 1 THEN FullBucket ELSE 0]
    /\ lastRefill = [c \in Clients |-> IF c = 1 THEN 0 ELSE ZeroTime]
    /\ rdPc = [c \in Clients |-> IF c = 1 THEN "read" ELSE "off"]
    /\ wrPc = [c \in Clients |-> IF c = 1 THEN "select" ELSE "off"]
    /\ now = 0
    /\ panicked = FALSE
    /\ removedBy = [c \in Clients |-> NotRemoved]
    /\ fwdTimes = [c \in Clients |-> <<>>]
    /\ burst = [c \in Clients |-> NoBurst]
    /\ lastEv = [r \in RoomIds |-> ZeroTime]
    /\ pendFirst = [r \in RoomIds |-> ZeroTime]
    /\ annEv = [r \in RoomIds |-> ZeroTime]
    /\ splitGap = [r \in RoomIds |-> NoGap]
    /\ wire = [c \in Clients |-> <<>>]
    /\ pushLog = [c \in Clients |-> <<>>]

\* further frames of the connection, as long as its bucket lets them pass
ReadBatch(c) ==
    /\ nFrames[c] <= BatchBuf
    /\ ReadFrame(c, ValidFrame)

\* a wake-up of writePump on the record, any of its writes failing
WriteBatch(c) ==
    \E k \in 0..(1 + drainBatch) : WriteSelect(c, k) /\ ObserveWrite(c, k)

\* the writePump of a connection with a backlog, the Room fanning out
NextBatch ==
    \/ \E r \in RoomIds : RoomBroadcast(r)
    \/ \E r \in RoomIds : RoomUnregister(r)
    \/ \E c \in Clients : ReadBatch(c)
    \/ \E c \in Clients : ReadError(c)
    \/ \E c \in Clients : WriteBatch(c)
    \/ \E c \in Clients : WritePingTick(c)

SpecBatch == InitBatch /\ [][NextBatch]_vars

\* C31: a wake-up takes the head of the queue, at most 1 + drainBatch
\* messages of it, and writes at most that many frames
C31_BatchStep ==
    \A c \in Clients :
        send'[c] # send[c] /\ Len(send'[c]) <= Len(send[c]) =>
            LET taken == Len(send[c]) - Len(send'[c])
                written == Len(wire'[c]) - Len(wire[c])
            IN /\ taken <= 1 + drainBatch
               /\ written <= 1 + drainBatch
               /\ send'[c] = SubSeq(send[c], taken + 1, Len(send[c]))
               /\ IsPrefix(wire[c], wire'[c])
               /\ wrPc'[c] \in {"select", "done"}
               /\ wrPc'[c] = "done" => connClosed'[c]

\* C31: a writePump that is in its select can take the ticker case,
\* whatever is queued
C31_TickerReady ==
    \A c \in Clients : wrPc[c] = "select" => ENABLED WritePingTick(c)

\* C31: each wake-up of writePump on a queued message writes that message
\* and at most drainBatch further queued ones, then the pump is back in its
\* select, where the ticker case can be taken although messages are queued
C31_DrainCap == []C31_TickerReady /\ [][C31_BatchStep]_vars

\* C31 witness: the first wake-up wrote 1 + drainBatch messages, more are
\* queued, and the pump is back in its select
C31_Witness ==
    \E c \in Clients :
        /\ Len(wire[c]) = 1 + drainBatch
        /\ send[c] # <<>>
        /\ wrPc[c] = "select"
        /\ ~connClosed[c]

(* ---------------------- the keepalive ping (C32) ----------------------- *)

MaxPings == 2

\* the pings written to the transport of c
Pings(c) == SelectSeq(wire[c], LAMBDA p : p = PingFrame)

\* a tick of the ping ticker, on the record
WritePinged(c) ==
    /\ Len(Pings(c)) < MaxPings
    /\ \E err \in BOOLEAN : PingCase(c, err) /\ ObservePing(c, err)

\* connections of one room chatting, their ping tickers firing at any time
NextPing ==
    \/ \E c \in Clients : ArriveDefault(c)
    \/ \E c \in Clients : GetRoomLock(c)
    \/ \E c \in Clients : GetRoomLookup(c)
    \/ \E c \in Clients : GetRoomCreate(c)
    \/ \E c \in Clients : Register(c)
    \/ \E c \in Clients : RegisterTimeout(c)
    \/ \E r \in RoomIds : RoomRegister(r)
    \/ \E r \in RoomIds : RoomBroadcast(r)
    \/ \E c \in Clients : ReadValid(c)
    \/ \E c \in Clients : WriteLogged(c)
    \/ \E c \in Clients : WritePinged(c)

SpecPing == Init /\ [][NextPing]_vars

\* application messages were written since the previous ping, or since the
\* pump started
TrafficSincePing(c) == wire[c] # <<>> /\ wire[c][Len(wire[c])] # PingFrame

\* C32 as stated: a ping is written only when no application message was
\* written since the previous tick
C32_PingOnlyWhenIdleStep ==
    \A c \in Clients :
        wire'[c] = Append(wire[c], PingFrame) => ~TrafficSincePing(c)

\* C32 as stated: on a tick the pump writes a ping if no application
\* message was written since the previous tick, and none otherwise
C32_PingOnlyWhenIdle == [][C32_PingOnlyWhenIdleStep]_vars

\* C32: a step of the pump that writes without taking from its queue is a
\* tick: it writes one ping and stays in the select
C32_TickStep ==
    \A c \in Clients :
        wire'[c] # wire[c] /\ send'[c] = send[c] /\ ~sendClosed[c] =>
            /\ wire'[c] = Append(wire[c], PingFrame)
            /\ wrPc[c] = "select"
            /\ wrPc'[c] = "select"
            /\ ~connClosed'[c]

\* C32: a step that ends the pump of an open queue without taking from
\* it is a tick whose ping failed: nothing is written, the transport is
\* closed
C32_FailedTickStep ==
    \A c \in Clients :
        /\ wrPc[c] = "select"
        /\ wrPc'[c] = "done"
        /\ send'[c] = send[c]
        /\ ~sendClosed[c]
        => wire'[c] = wire[c] /\ connClosed'[c]

\* C32: in its select over an open transport the pump can take the ticker
\* case and write a ping, whether or not application messages were
\* written since the previous one
C32_TickWrites ==
    \A c \in Clients :
        wrPc[c] = "select" /\ ~connClosed[c] /\ Len(Pings(c)) < MaxPings =>
            ENABLED (WritePinged(c) /\ wire'[c] = Append(wire[c], PingFrame))

\* C32 amended: on every tick of the ping ticker the pump writes a ping,
\* after application traffic as well as without any; a failing ping ends
\* the pump and closes the transport
C32_PingEveryTick ==
    /\ []C32_TickWrites
    /\ [][C32_TickStep]_vars
    /\ [][C32_FailedTickStep]_vars

\* C32 witness: a ping was written right after an application message,
\* and another right after a ping
C32_Witness ==
    \E c \in Clients :
        \E i, j \in 1..Len(wire[c]) :
            /\ i + 1 <= Len(wire[c])
            /\ j + 1 <= Len(wire[c])
            /\ wire[c][i].type = "chat"
            /\ wire[c][i + 1] = PingFrame
            /\ wire[c][j] = PingFrame
            /\ wire[c][j + 1] = PingFrame

(* ------------------------ the token bucket (C33) ----------------------- *)

\* the bucket of c as the frame read at this grain finds it after the refill
Refilled(c) ==
    LET sum == tokens[c] + (now - lastRefill[c]) * RefillPerGrain
    IN  IF sum > FullBucket THEN FullBucket ELSE sum

\* C33: the bucket of a connection holds between 0 and maxMsgsPerSecond
\* tokens, and is full until the connection's first frame
C33_BucketRange ==
    \A c \in Clients :
        /\ 0 <= tokens[c]
        /\ tokens[c] <= maxMsgsPerSecond * TokenScale
        /\ rdPc[c] = "read" /\ nFrames[c] = 0 =>
               tokens[c] = maxMsgsPerSecond * TokenScale

\* C33: a frame passes the limiter exactly when the refilled bucket holds
\* one token; passing takes that token, being rejected takes none
C33_LimiterStep ==
    \A c \in Clients :
        FrameRead(c) =>
            LET space == Len(broadcast[room[c]]) < roomBroadcastBuf
                pushed == broadcast'[room[c]] # broadcast[room[c]]
            IN /\ lastRefill[c] <= now
               /\ tokens'[c] = IF Refilled(c) >= TokenScale
                               THEN Refilled(c) - TokenScale
                               ELSE Refilled(c)
               /\ pushed => Refilled(c) >= TokenScale
               /\ Refilled(c) >= TokenScale /\ space
                    /\ ReadFrameTimed(c, ValidFrame) => pushed

\* C33: a connection starts with a full bucket; after every allowMessage
\* on timestamps that do not decrease the bucket holds between 0 and
\* maxMsgsPerSecond tokens; a frame is allowed exactly when the refilled
\* bucket holds at least one token, which it then takes, and a rejected
\* frame takes none
C33_TokenBucket == []C33_BucketRange /\ [][C33_LimiterStep]_vars

\* C33 witness: after three frames emptied the bucket, a valid frame one
\* grain later met half a token, was rejected and left the half token
C33_Witness ==
    \E c \in Clients :
        /\ burst[c].out # <<>>
        /\ burst[c].out[Len(burst[c].out)] = "rate"
        /\ tokens[c] = RefillPerGrain
        /\ tokens[c] < TokenScale
        /\ lastRefill[c] = now
        /\ now > 0

(* --------------------- tokens of discarded frames (C34) ---------------- *)

\* frames of every kind within one period of the limiter
ReadWaste(c) ==
    /\ nFrames[c] < BurstFrames
    /\ \E f \in Frames : ReadFrameTimed(c, f)

\* one connection sending frames of every kind at one instant, the Room
\* fanning out those that were forwarded
NextWaste ==
    \/ \E r \in RoomIds : RoomBroadcast(r)
    \/ \E c \in Clients : ReadWaste(c)
    \/ \E c \in Clients : WriteDrain(c)

SpecWaste == InitRate /\ [][NextWaste]_vars

\* a frame readPump discards after the limiter let it pass
Discarded(f) == ~f.json \/ ~sanitizeText(f.text).ok

\* C34: while the bucket holds a token, a frame of any kind takes one,
\* also a frame that is discarded as malformed, as empty or too long, or
\* for a full broadcast queue, which puts nothing on the queue; without a
\* token no frame is forwarded
C34_TokenStep ==
    \A c \in Clients :
        FrameRead(c) =>
            LET space == Len(broadcast[room[c]]) < roomBroadcastBuf
            IN \A f \in Frames :
                  ReadFrameTimed(c, f) =>
                      /\ Refilled(c) >= TokenScale =>
                             tokens'[c] = Refilled(c) - TokenScale
                      /\ Refilled(c) < TokenScale \/ Discarded(f) \/ ~space
                             => broadcast' = broadcast
                      /\ Refilled(c) >= TokenScale /\ ~Discarded(f) /\ space
                             => broadcast' # broadcast

\* C34: without a refill every frame read has taken a token as long as
\* there was one, and the forwarded messages are at most the tokens taken
C34_TokensTaken ==
    \A c \in Clients :
        rdPc[c] = "read" /\ lastRefill[c] = now =>
            /\ tokens[c] = IF nFrames[c] >= maxMsgsPerSecond THEN 0
                           ELSE FullBucket - nFrames[c] * TokenScale
            /\ Len(fwdTimes[c]) <= nFrames[c]
            /\ Len(fwdTimes[c]) * TokenScale <= FullBucket - tokens[c]

\* C34: the token is taken for every frame read, before parsing and
\* sanitizing: discarded frames use up tokens, so they reduce the number
\* of valid messages of the same sender that are forwarded in the period
C34_DiscardedFramesCost == []C34_TokensTaken /\ [][C34_TokenStep]_vars

\* C34 witness: three frames emptied the bucket and only one of them was
\* forwarded; a fourth frame was read and nothing more was forwarded
C34_Witness ==
    \E c \in Clients :
        /\ nFrames[c] = maxMsgsPerSecond + 1
        /\ tokens[c] = 0
        /\ Len(fwdTimes[c]) = 1
        /\ broadcast[room[c]] = <<>>

(* ------------------- frames of a dropped connection (C35) -------------- *)

\* the Room has removed c from clients for a full outbound queue
Dropped(c) == removedBy[c].how \in {"chat", "presence"}

\* C35: a readPump that pushes a chat payload onto the broadcast queue
\* belongs to a connection the Room has not dropped
C35_PushStep ==
    \A c \in Clients :
        FrameRead(c) /\ broadcast'[room[c]] # broadcast[room[c]] =>
            ~Dropped(c)

\* C35: a connection the Room has dropped for a full outbound queue
\* forwards no further chat message into the room: every chat payload the
\* Room fans out was pushed by a connection that was not yet removed
C35_NoForwardAfterDrop == [][C35_PushStep]_vars

(* ----------------------- the Registry grows (C36) ---------------------- *)

\* C36: no step removes or replaces an entry of Hub.rooms, and the Room of
\* an entry keeps its name and its loop
C36_EntryStep ==
    \A k \in RoomKeys :
        rooms[k] # NoRoom =>
            /\ rooms'[k] = rooms[k]
            /\ roomName'[rooms[k]] = roomName[rooms[k]]
            /\ loops'[rooms[k]] = loops[rooms[k]]

\* C36: distinct names are mapped to distinct Rooms, each created under
\* the name it is mapped by
C36_EntriesDistinct ==
    \A k \in RoomKeys :
        rooms[k] # NoRoom =>
            /\ roomName[rooms[k]] = k
            /\ rooms[k] \in 1..nRooms
            /\ \A j \in RoomKeys : rooms[j] = rooms[k] => j = k

\* C36: Hub.rooms only grows: a name that is mapped to a Room stays mapped
\* to that same Room in every later state, whether or not the Room has
\* members
C36_RegistryGrows == []C36_EntriesDistinct /\ [][C36_EntryStep]_vars

\* C36 witness: two names are mapped, and the Room of one of them has lost
\* its only member to an unregister and is still mapped
C36_Witness ==
    \E k, j \in RoomKeys :
        /\ k # j
        /\ rooms[k] # NoRoom
        /\ rooms[j] # NoRoom
        /\ clients[rooms[k]] = {}
        /\ register[rooms[k]] = <<>>
        /\ \E c \in Clients :
               /\ room[c] = rooms[k]
               /\ removedBy[c].how = "unregister"

====
